---------------------------- MODULE Spec2Model ----------------------------
(***************************************************************************)
(* Model of the math worksheet generator (worksheet_core.py, main.py):     *)
(* the problem classes, the problem generator with its duplicate-avoidance *)
(* window, the single-type page layout, the mixed-section composer and the *)
(* answer key.                                                             *)
(*                                                                         *)
(* Text is modelled as a sequence of one-character strings, so that        *)
(* str() / f-strings are real conversions.  Lengths on the page are in     *)
(* thousandths of a point (1 inch = 72 pt = 72000), which makes every      *)
(* coordinate and every string width the code computes an exact integer.   *)
(***************************************************************************)
EXTENDS Integers, Sequences, FiniteSets, TLC

VARIABLES
    \* ---- one call of make_problems / WorksheetGenerator.generate_problems
    cls,          \* problem class of the call
    n,            \* number of problems asked for
    term1_range,  \* <<min, max>>
    term2_range,  \* <<min, max>>
    plist,        \* plist / self.problems
    recent,       \* the duplicate-avoidance window
    slot,         \* outer loop counter
    attempt,      \* inner loop counter
    gpc,          \* "idle" | "call" | "loop" | "done" | "raised"
    rand,         \* the values the random generator returned in the last step
    \* ---- one problem object, constructed and queried
    arg,          \* constructor arguments [cls, a, b]
    obj,          \* the constructed problem
    lines,        \* result of format_problem()
    answer,       \* result of get_answer()
    ppc,          \* "idle" | "new" | "built" | "raised"
    \* ---- one call of create_pdf (WorksheetGenerator / MixedWorksheetGenerator)
    kind,             \* "single" | "mixed" | "none"
    problems_by_type, \* mixed: the sections, each [cls, plist]
    all_problems,     \* mixed: self.all_problems
    chunk_size,       \* mixed: self.chunk_size
    pages,            \* the canvas: what each page holds, the last one is open
    op,               \* the canvas: the last drawing operation
    idx, grid_r, grid_col, \* _draw_problem_pages: idx, r, col
    blk, blk_i,       \* mixed: the current block, i of the loop over its problems
    ans_i,            \* _draw_answer_key: i
    page_idx,         \* mixed: page_idx
    sections,         \* mixed: the blocks in drawing order
    lpc,              \* position in create_pdf
    \* ---- one request to the web API (generate_worksheet, get_defaults)
    payload,          \* the request body
    rpc,              \* position in generate_worksheet
    classes,          \* classes
    req_n,            \* n
    chunk,            \* chunk
    per_type_ranges,  \* per_type_ranges, in insertion order: [cls, t1, t2]
    out_path,         \* the name of the document of this request
    calls,            \* the generator calls still to make: [cls, t1, t2]
    generated,        \* the problem lists made so far: [cls, t1, t2, len]
    files,            \* the PDFs in OUTPUT_DIR, oldest first
    response,         \* what the request answered
    \* ---- two requests served at the same time
    defaults_table,   \* worksheet_core.PROBLEM_DEFAULTS, the shared table
    reqs              \* the locals of each of the requests

genVars == <<cls, n, term1_range, term2_range, plist, recent, slot,
             attempt, gpc>>
probVars == <<arg, obj, lines, answer, ppc>>
mixVars == <<kind, problems_by_type, all_problems, chunk_size>>
loopVars == <<idx, grid_r, grid_col, blk, blk_i, ans_i, page_idx>>
concVars == <<defaults_table, reqs>>
reqVars == <<payload, rpc, classes, req_n, chunk, per_type_ranges, out_path,
             calls, generated, files, response, concVars>>
layoutVars == <<kind, problems_by_type, all_problems, chunk_size, sections, pages, op,
                idx, grid_r, grid_col, blk, blk_i, ans_i, page_idx, lpc>>

(***************************************************************************)
(* Bounds of the model.                                                    *)
(***************************************************************************)
MaxN == 2          \* largest problem count of a generator call
MaxTerm == 2       \* generator ranges are drawn from 0..MaxTerm
MaxSpan == 1       \* and have max - min <= MaxSpan
NegOperand == 2     \* single-problem runs: arguments in -NegOperand..MaxOperand
MaxOperand == 7
MaxSmallCount == 3 \* single layout: counts 1..MaxSmallCount, page boundaries,
MaxCount == 500    \*   and MaxCount
MaxSections == 2   \* mixed layout: number of sections
PreAccepted == 9   \* long generator run: pairs accepted before the first state,
WindowMore == 2    \*   and slots that follow

(***************************************************************************)
(* Text: str(int), int(str).                                               *)
(***************************************************************************)
DigitChars == <<"0", "1", "2", "3", "4", "5", "6", "7", "8", "9">>

RECURSIVE Digits(_)
Digits(k) == IF k < 10 THEN <<DigitChars[k + 1]>>
             ELSE Digits(k \div 10) \o <<DigitChars[(k % 10) + 1]>>

\* Python str() of an int
Str(k) == IF k < 0 THEN <<"-">> \o Digits(-k) ELSE Digits(k)

\* int(str): the text must be an optional sign and one or more digits
IsDigit(c) == \E d \in 1..10 : DigitChars[d] = c

IsIntLiteral(s) ==
    LET body == IF s # <<>> /\ s[1] \in {"-", "+"} THEN Tail(s) ELSE s
    IN  body # <<>> /\ \A i \in 1..Len(body) : IsDigit(body[i])

DigitVal(c) == CHOOSE d \in 0..9 : DigitChars[d + 1] = c

RECURSIVE ParseNat(_)
ParseNat(s) == IF Len(s) = 1 THEN DigitVal(s[1])
               ELSE 10 * ParseNat(SubSeq(s, 1, Len(s) - 1)) + DigitVal(s[Len(s)])

ParseInt(s) == IF s[1] = "-" THEN 0 - ParseNat(Tail(s))
               ELSE IF s[1] = "+" THEN ParseNat(Tail(s)) ELSE ParseNat(s)

\* txt.split(".."): the pieces between the separators, left to right
RECURSIVE SplitDots(_)
SplitDots(s) ==
    IF \E i \in 1..(Len(s) - 1) : s[i] = "." /\ s[i + 1] = "."
    THEN LET i == CHOOSE i \in 1..(Len(s) - 1) :
                      /\ s[i] = "." /\ s[i + 1] = "."
                      /\ \A j \in 1..(i - 1) : ~(s[j] = "." /\ s[j + 1] = ".")
         IN  <<SubSeq(s, 1, i - 1)>> \o SplitDots(SubSeq(s, i + 2, Len(s)))
    ELSE <<s>>

\* a Python str literal, one character per element
Space == <<" ">>
Blank3 == <<"_", "_", "_">>
Blank2 == <<"_", "_">>

(***************************************************************************)
(* fractions.Fraction: normalised numerator / denominator.                 *)
(***************************************************************************)
Abs(k) == IF k < 0 THEN -k ELSE k

RECURSIVE Gcd(_, _)
Gcd(x, y) == IF y = 0 THEN Abs(x) ELSE Gcd(y, x % Abs(y))

\* Fraction(num, den), den # 0: lowest terms, positive denominator
Fraction(num, den) ==
    LET g == Gcd(num, den)
        s == IF den < 0 THEN -1 ELSE 1
    IN  [numerator |-> s * (num \div g), denominator |-> s * (den \div g)]

\* Fraction.__lt__ / __gt__ : exact comparison by cross multiplication
\* faulty variant: compares the integer quotients n // d
FracLtFloorDiv(f, g) ==
    (f.numerator \div f.denominator) < (g.numerator \div g.denominator)
FracLt(f, g) == f.numerator * g.denominator < g.numerator * f.denominator
FracGt(f, g) == FracLt(g, f)

(***************************************************************************)
(* Problem classes.                                                        *)
(***************************************************************************)
Multiplication == "MultiplicationProblem"
Addition == "AdditionProblem"
Subtraction == "SubtractionProblem"
Division == "DivisionProblem"
MissingFactor == "MissingFactorProblem"
FractionCompare == "FractionComparisonProblem"

Classes == {Multiplication, Addition, Subtraction, Division, MissingFactor,
            FractionCompare}

\* PROBLEM_DEFAULTS[cls]: <<term1 range, term2 range>>
PROBLEM_DEFAULTS(c) ==
    CASE c = Multiplication -> <<<<3, 12>>, <<2, 19>>>>
      [] c = Addition -> <<<<50, 300>>, <<10, 99>>>>
      [] c = Subtraction -> <<<<10, 99>>, <<10, 99>>>>
      [] c = MissingFactor -> <<<<2, 12>>, <<2, 20>>>>
      [] c = Division -> <<<<2, 12>>, <<2, 12>>>>
      [] c = FractionCompare -> <<<<2, 12>>, <<2, 12>>>>

\* the table as the module defines it
BuiltinTable == [c \in Classes |-> PROBLEM_DEFAULTS(c)]

\* what one constructor call may draw from the random generator
NoRand == [coin |-> FALSE, n1 |-> 0, n2 |-> 0]
None == "None"

\* random.randint(lo, hi) raises ValueError on an empty range
RandintRaises(lo, hi) == hi < lo

\* cls.__init__(a, b) raises
CtorRaises(c, a, b) ==
    c = FractionCompare /\ (RandintRaises(1, a - 1) \/ RandintRaises(1, b - 1))

\* the random draws cls.__init__(a, b) can make
CtorRands(c, a, b) ==
    CASE c = MissingFactor -> {[coin |-> k, n1 |-> 0, n2 |-> 0] : k \in BOOLEAN}
      [] c = FractionCompare ->
            {[coin |-> FALSE, n1 |-> x, n2 |-> y] : x \in 1..(a - 1), y \in 1..(b - 1)}
      [] OTHER -> {NoRand}

\* cls(a, b) with the random draws r
NewProblem(c, a, b, r) ==
    CASE c = Division ->
            [cls |-> c, divisor |-> a, quotient |-> b, dividend |-> a * b]
      [] c = MissingFactor ->
            [cls |-> c, a |-> a, b |-> b, prod |-> a * b, blank_left |-> r.coin]
      [] c = FractionCompare ->
            [cls |-> c, f1 |-> Fraction(r.n1, a), f2 |-> Fraction(r.n2, b)]
      [] OTHER -> [cls |-> c, a |-> a, b |-> b]

\* format_problem(): the list of display lines
format_problem(p) ==
    CASE p.cls = Multiplication -> <<Str(p.a), <<"x">> \o Space \o Str(p.b), Blank3>>
      [] p.cls = Addition -> <<Str(p.a), <<"+">> \o Space \o Str(p.b), Blank3>>
      [] p.cls = Subtraction -> <<Str(p.a), <<"-">> \o Space \o Str(p.b), Blank3>>
      [] p.cls = Division ->
            <<Str(p.dividend), <<"÷">> \o Space \o Str(p.divisor), Blank3>>
      [] p.cls = MissingFactor ->
            IF p.blank_left
            THEN <<Blank2 \o <<" ", "×", " ">> \o Str(p.b) \o <<" ", "=", " ">>
                    \o Str(p.prod)>>
            ELSE <<Str(p.a) \o <<" ", "×", " ">> \o Blank2 \o <<" ", "=", " ">>
                    \o Str(p.prod)>>
      [] p.cls = FractionCompare ->
            <<Str(p.f1.numerator) \o <<"/">> \o Str(p.f1.denominator)
                \o <<" ", " ", "[", "_", "_", "]", " ", " ">>
                \o Str(p.f2.numerator) \o <<"/">> \o Str(p.f2.denominator)>>

\* faulty variant: MissingFactor answers the factor that is shown
get_answer_SwappedFactor(p) ==
    CASE p.cls = Multiplication -> Str(p.a * p.b)
      [] p.cls = Addition -> Str(p.a + p.b)
      [] p.cls = Subtraction -> Str(p.a - p.b)
      [] p.cls = Division -> Str(p.quotient)
      [] p.cls = MissingFactor -> Str(IF p.blank_left THEN p.b ELSE p.a)
      [] p.cls = FractionCompare ->
            IF FracGt(p.f1, p.f2) THEN <<">">>
            ELSE IF FracLt(p.f1, p.f2) THEN <<"<">> ELSE <<"=">>
\* faulty variant: Subtraction answers a + b
get_answer_SubAsAdd(p) ==
    CASE p.cls = Multiplication -> Str(p.a * p.b)
      [] p.cls = Addition -> Str(p.a + p.b)
      [] p.cls = Subtraction -> Str(p.a + p.b)
      [] p.cls = Division -> Str(p.quotient)
      [] p.cls = MissingFactor -> Str(IF p.blank_left THEN p.a ELSE p.b)
      [] p.cls = FractionCompare ->
            IF FracGt(p.f1, p.f2) THEN <<">">>
            ELSE IF FracLt(p.f1, p.f2) THEN <<"<">> ELSE <<"=">>
\* get_answer(): the answer as text
get_answer(p) ==
    CASE p.cls = Multiplication -> Str(p.a * p.b)
      [] p.cls = Addition -> Str(p.a + p.b)
      [] p.cls = Subtraction -> Str(p.a - p.b)
      [] p.cls = Division -> Str(p.quotient)
      [] p.cls = MissingFactor -> Str(IF p.blank_left THEN p.a ELSE p.b)
      [] p.cls = FractionCompare ->
            IF FracGt(p.f1, p.f2) THEN <<">">>
            ELSE IF FracLt(p.f1, p.f2) THEN <<"<">> ELSE <<"=">>

(***************************************************************************)
(* The problem generator: make_problems and                                *)
(* WorksheetGenerator.generate_problems run the same loop.                 *)
(***************************************************************************)
max_recent == 10
MaxAttempts == 50

TermValues == 0..MaxTerm
Ranges == {r \in TermValues \X TermValues : r[1] <= r[2] /\ r[2] - r[1] <= MaxSpan}

\* random.randint(*range)
Randint(r) == r[1]..r[2]

\* (a, b) not in recent
NotInRecent(rc, a, b) == \A i \in 1..Len(rc) : rc[i] # <<a, b>>

\* faulty variant: the window is never trimmed
PushRecentNoEvict(rc, a, b) == Append(rc, <<a, b>>)
\* recent.append((a, b)); if len(recent) > max_recent: recent.pop(0)
PushRecent(rc, a, b) ==
    LET r == Append(rc, <<a, b>>)
    IN  IF Len(r) > max_recent THEN Tail(r) ELSE r

\* faulty variant: the problem is not appended
AppendDropped(pl, p) == pl

\* plist.append(cls(a, b)) of the accepted draw and of the fallback draw
AppendAccepted(pl, p) == Append(pl, p)
AppendFallback(pl, p) == Append(pl, p)

NoOp == [kind |-> "none", page |-> 0, blk |-> 0, k |-> 0, col |-> 0, row |-> 0,
         x |-> 0, y |-> 0, texts |-> <<>>]

InitLayoutIdle ==
    /\ kind = "none" /\ problems_by_type = <<>> /\ all_problems = <<>>
    /\ chunk_size = 0 /\ sections = <<>> /\ pages = <<>> /\ op = NoOp
    /\ idx = 0 /\ grid_r = 0 /\ grid_col = 0 /\ blk = 0 /\ blk_i = 0
    /\ ans_i = 0 /\ page_idx = 0
    /\ lpc = "idle"

\* an optional field of the request body
Given(v) == [given |-> TRUE, v |-> v]
Absent == [given |-> FALSE, v |-> <<>>]

NoPayload ==
    [problem_types |-> Absent, n |-> Absent, chunk |-> Absent, defaults |-> <<>>,
     term1 |-> Absent, term2 |-> Absent]

NoResponse == [status |-> 0, detail |-> "", url |-> 0, body |-> <<>>]

\* no request is being served; the table is as worksheet_core defines it
InitConcIdle == defaults_table = BuiltinTable /\ reqs = <<>>

InitRequestIdle ==
    /\ payload = NoPayload /\ rpc = "idle" /\ classes = <<>> /\ req_n = 0
    /\ chunk = 0 /\ per_type_ranges = <<>> /\ out_path = 0 /\ calls = <<>>
    /\ generated = <<>> /\ files = <<>> /\ response = NoResponse
    /\ InitConcIdle

InitProblemIdle ==
    /\ arg = None /\ obj = None /\ lines = None /\ answer = None
    /\ ppc = "idle"

InitGen ==
    /\ cls \in Classes
    /\ n \in 1..MaxN
    /\ term1_range \in Ranges
    /\ term2_range \in Ranges
    /\ plist = <<>>
    /\ recent = <<>>
    /\ slot = 0
    /\ attempt = 0
    /\ gpc = "call"
    /\ rand = None
    /\ InitProblemIdle
    /\ InitLayoutIdle
    /\ InitRequestIdle

\* entering the function: recent = [], plist = [] / self.problems.clear().
\* The function may be called again with the same arguments.
Call ==
    /\ gpc \in {"call", "done"}
    /\ plist' = <<>>
    /\ recent' = <<>>
    /\ slot' = 0
    /\ attempt' = 0
    /\ gpc' = "loop"
    /\ rand' = None
    /\ UNCHANGED <<cls, n, term1_range, term2_range>>
    /\ UNCHANGED probVars
    /\ UNCHANGED layoutVars
    /\ UNCHANGED reqVars

\* one pass of the inner loop whose draw is not in the window
DrawAccept ==
    /\ gpc = "loop" /\ slot < n /\ attempt < MaxAttempts
    /\ \E a \in Randint(term1_range), b \in Randint(term2_range) :
        /\ NotInRecent(recent, a, b)
        /\ ~CtorRaises(cls, a, b)
        /\ \E r \in CtorRands(cls, a, b) :
            /\ plist' = AppendAccepted(plist, NewProblem(cls, a, b, r))
            /\ rand' = [a |-> a, b |-> b, r |-> r]
        /\ recent' = PushRecent(recent, a, b)
        /\ slot' = slot + 1
        /\ attempt' = 0
    /\ UNCHANGED <<cls, n, term1_range, term2_range, gpc>>
    /\ UNCHANGED probVars
    /\ UNCHANGED layoutVars
    /\ UNCHANGED reqVars

\* one pass of the inner loop whose draw is in the window
DrawCollide ==
    /\ gpc = "loop" /\ slot < n /\ attempt < MaxAttempts
    /\ \E a \in Randint(term1_range), b \in Randint(term2_range) :
        /\ ~NotInRecent(recent, a, b)
        /\ rand' = [a |-> a, b |-> b, r |-> NoRand]
    /\ attempt' = attempt + 1
    /\ UNCHANGED <<cls, n, term1_range, term2_range, plist, recent, slot, gpc>>
    /\ UNCHANGED probVars
    /\ UNCHANGED layoutVars
    /\ UNCHANGED reqVars

\* the for-else clause: all attempts collided, one draw taken as it is
Fallback ==
    /\ gpc = "loop" /\ slot < n /\ attempt = MaxAttempts
    /\ \E a \in Randint(term1_range), b \in Randint(term2_range) :
        /\ ~CtorRaises(cls, a, b)
        /\ \E r \in CtorRands(cls, a, b) :
            /\ plist' = AppendFallback(plist, NewProblem(cls, a, b, r))
            /\ rand' = [a |-> a, b |-> b, r |-> r]
    /\ slot' = slot + 1
    /\ attempt' = 0
    /\ UNCHANGED <<cls, n, term1_range, term2_range, recent, gpc>>
    /\ UNCHANGED probVars
    /\ UNCHANGED layoutVars
    /\ UNCHANGED reqVars

\* cls(a, b) raises ValueError (randint on an empty range): the exception
\* leaves the generator, no list is returned
DrawRaise ==
    /\ gpc = "loop" /\ slot < n
    /\ \E a \in Randint(term1_range), b \in Randint(term2_range) :
        /\ attempt < MaxAttempts => NotInRecent(recent, a, b)
        /\ CtorRaises(cls, a, b)
        /\ rand' = [a |-> a, b |-> b, r |-> NoRand]
    /\ gpc' = "raised"
    /\ UNCHANGED <<cls, n, term1_range, term2_range, plist, recent, slot, attempt>>
    /\ UNCHANGED probVars
    /\ UNCHANGED layoutVars
    /\ UNCHANGED reqVars

\* the outer loop is over: return plist
Return ==
    /\ gpc = "loop" /\ slot = n
    /\ gpc' = "done"
    /\ rand' = None
    /\ UNCHANGED <<cls, n, term1_range, term2_range, plist, recent, slot, attempt>>
    /\ UNCHANGED probVars
    /\ UNCHANGED layoutVars
    /\ UNCHANGED reqVars

(***************************************************************************)
(* A long generator call, entered after its first PreAccepted slots: the   *)
(* ranges give max_recent + 1 pairs, of which (2,2), (2,3), ... have been   *)
(* accepted in this order; WindowMore slots follow.                        *)
(***************************************************************************)
WindowClasses == {Multiplication, Addition, Subtraction, Division}

AcceptedPair(j) == <<2, 1 + j>>

InitWindow ==
    /\ cls \in WindowClasses
    /\ n = PreAccepted + WindowMore
    /\ term1_range = <<2, 2>>
    /\ term2_range = <<2, max_recent + 2>>
    /\ plist = [j \in 1..PreAccepted |->
                   NewProblem(cls, AcceptedPair(j)[1], AcceptedPair(j)[2], NoRand)]
    /\ recent = [j \in 1..PreAccepted |-> AcceptedPair(j)]
    /\ slot = PreAccepted
    /\ attempt = 0
    /\ gpc = "loop"
    /\ rand = [a |-> AcceptedPair(PreAccepted)[1], b |-> AcceptedPair(PreAccepted)[2],
               r |-> NoRand]
    /\ InitProblemIdle
    /\ InitLayoutIdle
    /\ InitRequestIdle

(***************************************************************************)
(* One problem object: construction, format_problem(), get_answer().       *)
(***************************************************************************)
Operands == (0 - NegOperand)..MaxOperand

InitGenIdle ==
    /\ cls = None /\ n = 0 /\ term1_range = <<0, 0>> /\ term2_range = <<0, 0>>
    /\ plist = <<>> /\ recent = <<>> /\ slot = 0 /\ attempt = 0
    /\ gpc = "idle"

InitProblem ==
    /\ arg \in [cls : Classes, a : Operands, b : Operands]
    /\ obj = None /\ lines = None /\ answer = None
    /\ ppc = "new"
    /\ rand = None
    /\ InitGenIdle
    /\ InitLayoutIdle
    /\ InitRequestIdle

\* obj = cls(a, b)
Construct ==
    /\ ppc = "new"
    /\ ~CtorRaises(arg.cls, arg.a, arg.b)
    /\ \E r \in CtorRands(arg.cls, arg.a, arg.b) :
        /\ obj' = NewProblem(arg.cls, arg.a, arg.b, r)
        /\ rand' = [a |-> arg.a, b |-> arg.b, r |-> r]
    /\ ppc' = "built"
    /\ UNCHANGED <<arg, lines, answer>>
    /\ UNCHANGED genVars
    /\ UNCHANGED layoutVars
    /\ UNCHANGED reqVars

\* cls(a, b) raises ValueError
ConstructRaise ==
    /\ ppc = "new"
    /\ CtorRaises(arg.cls, arg.a, arg.b)
    /\ ppc' = "raised"
    /\ UNCHANGED <<arg, obj, lines, answer, rand>>
    /\ UNCHANGED genVars
    /\ UNCHANGED layoutVars
    /\ UNCHANGED reqVars

\* lines = obj.format_problem()
FormatProblem ==
    /\ ppc = "built"
    /\ lines = None
    /\ lines' = format_problem(obj)
    /\ UNCHANGED <<arg, obj, answer, ppc, rand>>
    /\ UNCHANGED genVars
    /\ UNCHANGED layoutVars
    /\ UNCHANGED reqVars

\* answer = obj.get_answer()
GetAnswer ==
    /\ ppc = "built"
    /\ answer = None
    /\ answer' = get_answer(obj)
    /\ UNCHANGED <<arg, obj, lines, ppc, rand>>
    /\ UNCHANGED genVars
    /\ UNCHANGED layoutVars
    /\ UNCHANGED reqVars

(***************************************************************************)
(* Page geometry, in thousandths of a point.                               *)
(***************************************************************************)
Pt(k) == 1000 * k
inch == Pt(72)
letter == <<Pt(612), Pt(792)>>
width == letter[1]
height == letter[2]
margin == inch \div 2                \* 0.5 * inch
usable_w == width - 2 * margin
usable_h == height - 2 * margin
header_height == Pt(22)
lh == Pt(16)
per_row == 10
ans_row_h == Pt(15)
HalfPageChunk == 25

\* c.stringWidth(L, "Helvetica", size): the Helvetica advance widths
CharWidth(c) ==
    CASE c \in {" ", "/", "[", "]", "."} -> 278
      [] c = "-" -> 333
      [] c = "x" -> 500
      [] c \in {"+", "=", "<", ">", "×", "÷"} -> 584
      [] OTHER -> 556

RECURSIVE SumWidths(_)
SumWidths(s) == IF s = <<>> THEN 0 ELSE CharWidth(s[1]) + SumWidths(Tail(s))

stringWidth(s, size) == SumWidths(s) * size

RECURSIVE MaxWidth(_, _)
MaxWidth(ls, size) ==
    IF Len(ls) = 1 THEN stringWidth(ls[1], size)
    ELSE LET m == MaxWidth(Tail(ls), size)
             w == stringWidth(ls[1], size)
         IN  IF w > m THEN w ELSE m

\* faulty variant: every line starts at x
draw_single_LeftAligned(p, x, y) ==
    LET ls == format_problem(p)
    IN  [k \in 1..Len(ls) |-> [x |-> x, y |-> y - (k - 1) * lh, text |-> ls[k]]]
\* _draw_single(c, problem, x, y): the drawString calls it makes
draw_single(p, x, y) ==
    LET ls == format_problem(p)
        max_w == MaxWidth(ls, 14)
    IN  [k \in 1..Len(ls) |->
            [x |-> x + max_w - stringWidth(ls[k], 14),
             y |-> y - (k - 1) * lh,
             text |-> ls[k]]]

\* faulty variant: every type on the 10 x 5 grid
GridAlwaysDense(c) == <<10, 5>>
\* WorksheetGenerator._grid(): <<cols, rows>>
Grid(c) == IF c \in {MissingFactor, FractionCompare} THEN <<5, 10>> ELSE <<10, 5>>

\* MixedWorksheetGenerator.SECTION_LABELS
SECTION_LABELS(c) ==
    CASE c = Multiplication -> "Multiplication"
      [] c = Addition -> "Addition"
      [] c = Subtraction -> "Subtraction"
      [] c = Division -> "Division"
      [] c = MissingFactor -> "Missing Factor"
      [] c = FractionCompare -> "Fraction Comparison"

(***************************************************************************)
(* The canvas: pages is the list of pages begun so far (the last one is    *)
(* the open page), each with what has been drawn on it.                    *)
(***************************************************************************)
EmptyPage == [np |-> 0, na |-> 0, title |-> FALSE, headers |-> <<>>]

\* canvas.Canvas(...): page 1 is open
NewCanvas == <<EmptyPage>>

\* c.showPage()
showPage(pg) == Append(pg, EmptyPage)

CurPage(pg) == Len(pg)

\* the open page after one more problem / answer / title / header
WithProblem(pg) == [pg EXCEPT ![Len(pg)].np = @ + 1]
WithAnswer(pg) == [pg EXCEPT ![Len(pg)].na = @ + 1]
WithTitle(pg) == [pg EXCEPT ![Len(pg)].title = TRUE]
WithHeader(pg, label, half) ==
    [pg EXCEPT ![Len(pg)].headers = Append(@, <<label, half>>)]

(***************************************************************************)
(* Problem lists handed to the layout: lists the generator returns for the *)
(* ranges (2..12, 2..8); no pair repeats within ten consecutive problems.  *)
(***************************************************************************)
SampleProblem(c, k) ==
    LET a == 2 + (k % 11)
        b == 2 + ((3 * k) % 7)
    IN  NewProblem(c, a, b, [coin |-> (k % 2 = 0),
                             n1 |-> 1 + (k % (a - 1)),
                             n2 |-> 1 + ((k \div 2) % (b - 1))])

SampleList(c, len, off) == [k \in 1..len |-> SampleProblem(c, k + off)]

Counts == (1..MaxSmallCount) \cup {49, 50, 51, 100, 120} \cup {MaxCount}

InitCanvasIdle ==
    /\ idx = 0 /\ grid_r = 0 /\ grid_col = 0 /\ blk = 0 /\ blk_i = 0
    /\ ans_i = 0 /\ page_idx = 0

\* a WorksheetGenerator after generate_problems(), before create_pdf()
InitSingle ==
    /\ kind = "single"
    /\ cls \in Classes
    /\ n \in Counts
    /\ plist = SampleList(cls, n, 0)
    /\ term1_range = <<2, 12>> /\ term2_range = <<2, 8>>
    /\ recent = <<>> /\ slot = n /\ attempt = 0 /\ gpc = "done"
    /\ rand = None
    /\ problems_by_type = <<>> /\ all_problems = <<>> /\ chunk_size = 0
    /\ sections = <<>>
    /\ pages = <<>> /\ op = NoOp
    /\ InitCanvasIdle
    /\ lpc = "create_pdf"
    /\ InitProblemIdle
    /\ InitRequestIdle

(***************************************************************************)
(* WorksheetGenerator.create_pdf                                           *)
(***************************************************************************)
\* c = canvas.Canvas(...); self._draw_problem_pages(c, w, h): idx = 0
CreatePdf ==
    /\ kind = "single" /\ lpc = "create_pdf"
    /\ pages' = NewCanvas
    /\ idx' = 0
    /\ lpc' = "while"
    /\ UNCHANGED <<op, grid_r, grid_col, blk, blk_i, ans_i, page_idx>>
    /\ UNCHANGED <<genVars, rand, probVars, mixVars, sections>>
    /\ UNCHANGED reqVars

\* faulty variant: a page break before the first page too
PageBreakAlways(pg, k) == showPage(pg)
\* if idx: c.showPage()
PageBreak(pg, k) == IF k # 0 THEN showPage(pg) ELSE pg

\* while idx < len(self.problems): if idx: c.showPage(); enter the grid loops
PageStart ==
    /\ kind = "single" /\ lpc = "while"
    /\ idx < Len(plist)
    /\ pages' = PageBreak(pages, idx)
    /\ grid_r' = 0 /\ grid_col' = 0
    /\ lpc' = "cell"
    /\ UNCHANGED <<op, idx, blk, blk_i, ans_i, page_idx>>
    /\ UNCHANGED <<genVars, rand, probVars, mixVars, sections>>
    /\ UNCHANGED reqVars

\* x, y of the cell (r, col) on a grid of cols x rows
CellX(cols, c) == margin + c * (usable_w \div cols) + (5 * (usable_w \div cols)) \div 100
CellY(rows, rw) ==
    height - margin - rw * (usable_h \div rows) - (15 * (usable_h \div rows)) \div 100

\* the body of the two for loops: draw problems[idx] in cell (r, col), then
\* move to the next cell, leaving the loops at the end of the list or grid
DrawCell ==
    /\ kind = "single" /\ lpc = "cell"
    /\ LET cols == Grid(cls)[1]
           rows == Grid(cls)[2]
           x == CellX(cols, grid_col)
           y == CellY(rows, grid_r)
       IN  /\ op' = [kind |-> "problem", page |-> CurPage(pages), blk |-> 0, k |-> idx,
                     col |-> grid_col, row |-> grid_r, x |-> x, y |-> y,
                     texts |-> draw_single(plist[idx + 1], x, y)]
           /\ pages' = WithProblem(pages)
           /\ idx' = idx + 1
           /\ IF idx + 1 >= Len(plist)
              THEN lpc' = "while" /\ UNCHANGED <<grid_r, grid_col>>
              ELSE IF grid_col + 1 < cols
              THEN lpc' = "cell" /\ grid_col' = grid_col + 1 /\ UNCHANGED grid_r
              ELSE IF grid_r + 1 < rows
              THEN lpc' = "cell" /\ grid_col' = 0 /\ grid_r' = grid_r + 1
              ELSE lpc' = "while" /\ UNCHANGED <<grid_r, grid_col>>
    /\ UNCHANGED <<blk, blk_i, ans_i, page_idx>>
    /\ UNCHANGED <<genVars, rand, probVars, mixVars, sections>>
    /\ UNCHANGED reqVars

\* the while loop ends; create_pdf goes on to self._draw_answer_key(c, w, h)
PagesDone ==
    /\ kind = "single" /\ lpc = "while"
    /\ idx >= Len(plist)
    /\ lpc' = "answer_key"
    /\ UNCHANGED <<pages, op, loopVars>>
    /\ UNCHANGED <<genVars, rand, probVars, mixVars, sections>>
    /\ UNCHANGED reqVars

(***************************************************************************)
(* _draw_answer_key (the same in both generators)                          *)
(***************************************************************************)
\* the list the answer key enumerates: self.problems / self.all_problems
AnswerList == IF kind = "single" THEN plist ELSE all_problems

\* faulty variant: the key starts on the last problem page
AnswerKeyStartNoShowPage(pg) == WithTitle(pg)
\* c.showPage(); the "Answer Key" title
AnswerKeyStart(pg) == WithTitle(showPage(pg))

\* faulty variant: entries numbered from 0
AnswerTextZeroBased(k, p) == Str(k) \o <<".", " ">> \o get_answer(p)
\* f"{i+1}. {p.get_answer()}"
AnswerText(k, p) == Str(k + 1) \o <<".", " ">> \o get_answer(p)

AnswerX(k) == margin + (k % per_row) * (usable_w \div per_row)
AnswerY(k) == (height - inch) - (k \div per_row) * ans_row_h

DrawAnswerKeyStart ==
    /\ lpc = "answer_key"
    /\ pages' = AnswerKeyStart(pages)
    /\ op' = [kind |-> "title", page |-> CurPage(pages'), blk |-> 0, k |-> 0, col |-> 0,
              row |-> 0, x |-> margin, y |-> height - margin,
              texts |-> <<>>]
    /\ ans_i' = 0
    /\ lpc' = "answers"
    /\ UNCHANGED <<idx, grid_r, grid_col, blk, blk_i, page_idx>>
    /\ UNCHANGED <<genVars, rand, probVars, mixVars, sections>>
    /\ UNCHANGED reqVars

\* for i, p in enumerate(...): c.drawString(x, y, f"{i+1}. {p.get_answer()}")
DrawAnswer ==
    /\ lpc = "answers"
    /\ ans_i < Len(AnswerList)
    /\ op' = [kind |-> "answer", page |-> CurPage(pages), blk |-> 0, k |-> ans_i,
              col |-> ans_i % per_row, row |-> ans_i \div per_row,
              x |-> AnswerX(ans_i), y |-> AnswerY(ans_i),
              texts |-> <<[x |-> AnswerX(ans_i), y |-> AnswerY(ans_i),
                           text |-> AnswerText(ans_i, AnswerList[ans_i + 1])]>>]
    /\ pages' = WithAnswer(pages)
    /\ ans_i' = ans_i + 1
    /\ UNCHANGED <<idx, grid_r, grid_col, blk, blk_i, page_idx, lpc>>
    /\ UNCHANGED <<genVars, rand, probVars, mixVars, sections>>
    /\ UNCHANGED reqVars

\* c.save()
Save ==
    /\ lpc = "answers"
    /\ ans_i >= Len(AnswerList)
    /\ lpc' = "saved"
    /\ UNCHANGED <<pages, op, loopVars>>
    /\ UNCHANGED <<genVars, rand, probVars, mixVars, sections>>
    /\ UNCHANGED reqVars


(***************************************************************************)
(* MixedWorksheetGenerator                                                 *)
(***************************************************************************)
RECURSIVE Concat(_)
Concat(ss) == IF ss = <<>> THEN <<>> ELSE ss[1] \o Concat(Tail(ss))

\* __init__: [p for _, plist in problems_by_type for p in plist]
AllProblems(pbt) == Concat([j \in 1..Len(pbt) |-> pbt[j].plist])

\* [(cls, plist) for cls, plist in self.problems_by_type if plist]
Groups(pbt) == SelectSeq(pbt, LAMBDA s : s.plist # <<>>)

\* faulty variant: every slice is filled with copies of its first problem
ChunksOfCopies(pl, cs) ==
    [c \in 1..((Len(pl) + cs - 1) \div cs) |->
        [i \in 1..((IF c * cs < Len(pl) THEN c * cs ELSE Len(pl)) - (c - 1) * cs) |->
            pl[(c - 1) * cs + 1]]]
\* faulty variant: a short last slice is left out
ChunksDropShortTail(pl, cs) ==
    [c \in 1..(Len(pl) \div cs) |-> SubSeq(pl, (c - 1) * cs + 1, c * cs)]
\* [plist[i : i + chunk_size] for i in range(0, len(plist), chunk_size)]
Chunks(pl, cs) ==
    [c \in 1..((Len(pl) + cs - 1) \div cs) |->
        SubSeq(pl, (c - 1) * cs + 1,
               IF c * cs < Len(pl) THEN c * cs ELSE Len(pl))]

Chunked(pbt, cs) ==
    LET g == Groups(pbt)
    IN  [j \in 1..Len(g) |-> [cls |-> g[j].cls, chunks |-> Chunks(g[j].plist, cs)]]

RECURSIVE MaxChunks(_)
MaxChunks(ch) ==
    IF Len(ch) = 1 THEN Len(ch[1].chunks)
    ELSE LET m == MaxChunks(Tail(ch))
         IN  IF Len(ch[1].chunks) > m THEN Len(ch[1].chunks) ELSE m

\* faulty variant: all chunks of a section before the next section
HalfSectionsSectionMajor(ch) ==
    Concat([g \in 1..Len(ch) |->
              [ci \in 1..Len(ch[g].chunks) |->
                  [cls |-> ch[g].cls, problems |-> ch[g].chunks[ci],
                   chunk |-> ci - 1, sec |-> g]]])
\* half-page mode: the flat list "sections": for i in range(max_chunks):
\* for cls, chunks in chunked: if i < len(chunks): append (cls, chunks[i]).
\* The block (ci, g) is appended after every block of a smaller chunk index
\* and after the blocks of the same chunk index of the earlier groups.
HalfSections(ch) ==
    LET Valid == {q \in (1..MaxChunks(ch)) \X (1..Len(ch)) : q[1] <= Len(ch[q[2]].chunks)}
        Before(q) ==
            Cardinality({v \in Valid : v[1] < q[1] \/ (v[1] = q[1] /\ v[2] < q[2])})
    IN  [t \in 1..Cardinality(Valid) |->
            LET q == CHOOSE v \in Valid : Before(v) = t - 1
            IN  [cls |-> ch[q[2]].cls, problems |-> ch[q[2]].chunks[q[1]],
                 chunk |-> q[1] - 1, sec |-> q[2]]]

\* full-page mode: for cls, chunks in chunked: for problems in chunks
FullSections(ch) ==
    Concat([g \in 1..Len(ch) |->
              [ci \in 1..Len(ch[g].chunks) |->
                  [cls |-> ch[g].cls, problems |-> ch[g].chunks[ci],
                   chunk |-> ci - 1, sec |-> g]]])

\* faulty variant: a chunk of exactly 25 goes to full-page mode
HalfPageBelow(cs) == cs < HalfPageChunk
\* if self.chunk_size <= 25
HalfPage(cs) == cs <= HalfPageChunk

SectionLens == {0, 10, 30, 75}
ChunkSizes == {1, 10, 25, 26, 50}
SectionClassLists ==
    {<<Multiplication, MissingFactor, Division, Addition>>,
     <<FractionCompare, Subtraction, MissingFactor, Division>>}

\* a MixedWorksheetGenerator after __init__, before create_pdf()
InitMixed ==
    /\ kind = "mixed"
    /\ \E k \in 1..MaxSections, cl \in SectionClassLists :
        \E lens \in [1..k -> SectionLens] :
            problems_by_type =
                [j \in 1..k |-> [cls |-> cl[j],
                                 plist |-> SampleList(cl[j], lens[j], 20 * j)]]
    /\ chunk_size \in ChunkSizes
    /\ all_problems = AllProblems(problems_by_type)
    /\ sections = <<>>
    /\ pages = <<>> /\ op = NoOp
    /\ InitCanvasIdle
    /\ lpc = "create_pdf"
    /\ rand = None
    /\ InitGenIdle
    /\ InitProblemIdle
    /\ InitRequestIdle

\* create_pdf up to the first page: the canvas, chunked, and (half-page mode)
\* the flat list of sections; in full-page mode the two nested loops visit
\* the chunks in the order of FullSections
MixedCreatePdf ==
    /\ kind = "mixed" /\ lpc = "create_pdf"
    /\ ~(HalfPage(chunk_size) /\ Chunked(problems_by_type, chunk_size) = <<>>)
    /\ pages' = NewCanvas
    /\ sections' = IF HalfPage(chunk_size)
                   THEN HalfSections(Chunked(problems_by_type, chunk_size))
                   ELSE FullSections(Chunked(problems_by_type, chunk_size))
    /\ blk' = 0 /\ page_idx' = 0
    /\ lpc' = "block"
    /\ UNCHANGED <<op, idx, grid_r, grid_col, blk_i, ans_i>>
    /\ UNCHANGED <<genVars, rand, probVars, mixVars>>
    /\ UNCHANGED reqVars

\* max() of an empty sequence: every section is empty in half-page mode
MixedCreatePdfRaise ==
    /\ kind = "mixed" /\ lpc = "create_pdf"
    /\ HalfPage(chunk_size) /\ Chunked(problems_by_type, chunk_size) = <<>>
    /\ pages' = NewCanvas
    /\ lpc' = "raised"
    /\ UNCHANGED <<op, loopVars, sections>>
    /\ UNCHANGED <<genVars, rand, probVars, mixVars>>
    /\ UNCHANGED reqVars

\* faulty variant: a page break before every block but the first
BlockPageBreakEveryBlock(pg, b, pidx, cs) == IF b # 0 THEN showPage(pg) ELSE pg
\* half-page: if pair_i: c.showPage() before a top block;
\* full-page: if page_idx: c.showPage() before every block
BlockPageBreak(pg, b, pidx, cs) ==
    IF HalfPage(cs)
    THEN IF b % 2 = 0 /\ b # 0 THEN showPage(pg) ELSE pg
    ELSE IF pidx # 0 THEN showPage(pg) ELSE pg

\* "top" | "bottom" | "full": where block b (0-based) goes on its page
BlockHalf(b, cs) ==
    IF HalfPage(cs) THEN (IF b % 2 = 0 THEN "top" ELSE "bottom") ELSE "full"

\* y_off
YOff(half) == IF half = "bottom" THEN 0 - (usable_h \div 2) ELSE 0

\* faulty variant: the grid of the type in half-page mode too
BlockGridNative(c, cs) == Grid(c)
\* <<cols, rows>> of a block
BlockGrid(c, cs) == IF HalfPage(cs) THEN <<5, 5>> ELSE Grid(c)

\* row_h of a block
BlockRowH(c, cs) ==
    IF HalfPage(cs) THEN ((usable_h \div 2) - header_height) \div BlockGrid(c, cs)[2]
    ELSE (usable_h - header_height) \div BlockGrid(c, cs)[2]

\* the start of a block: the page break, the header and its rule
BlockStart ==
    /\ kind = "mixed" /\ lpc = "block"
    /\ blk < Len(sections)
    /\ LET half == BlockHalf(blk, chunk_size)
           pg == BlockPageBreak(pages, blk, page_idx, chunk_size)
           header_y == height - margin + YOff(half) - Pt(2)
       IN  /\ pages' = WithHeader(pg, SECTION_LABELS(sections[blk + 1].cls), half)
           /\ op' = [kind |-> "header", page |-> CurPage(pg), blk |-> blk, k |-> 0,
                     col |-> 0, row |-> 0, x |-> width \div 2, y |-> header_y,
                     texts |-> <<>>]
    /\ blk_i' = 0
    /\ lpc' = "cell"
    /\ UNCHANGED <<idx, grid_r, grid_col, blk, ans_i, page_idx, sections>>
    /\ UNCHANGED <<genVars, rand, probVars, mixVars>>
    /\ UNCHANGED reqVars

\* for i, p in enumerate(problems): one problem of the block; after the last
\* one the block is over, and the page too after a bottom block, after a last
\* top block without partner, and after every full-page block: page_idx += 1
DrawBlockCell ==
    /\ kind = "mixed" /\ lpc = "cell"
    /\ LET s == sections[blk + 1]
           half == BlockHalf(blk, chunk_size)
           cols == BlockGrid(s.cls, chunk_size)[1]
           col_w == usable_w \div cols
           row_h == BlockRowH(s.cls, chunk_size)
           c == blk_i % cols
           rw == blk_i \div cols
           x == margin + c * col_w + (5 * col_w) \div 100
           y == height - margin - rw * row_h - (15 * row_h) \div 100
                  + YOff(half) - header_height
       IN  /\ op' = [kind |-> "problem", page |-> CurPage(pages), blk |-> blk,
                     k |-> blk_i, col |-> c, row |-> rw, x |-> x, y |-> y,
                     texts |-> draw_single(s.problems[blk_i + 1], x, y)]
           /\ pages' = WithProblem(pages)
           /\ IF blk_i + 1 < Len(s.problems)
              THEN /\ blk_i' = blk_i + 1
                   /\ UNCHANGED <<blk, page_idx, lpc>>
              ELSE /\ blk_i' = 0
                   /\ blk' = blk + 1
                   /\ page_idx' = IF half = "top" /\ blk + 1 < Len(sections)
                                  THEN page_idx ELSE page_idx + 1
                   /\ lpc' = "block"
    /\ UNCHANGED <<idx, grid_r, grid_col, ans_i, sections>>
    /\ UNCHANGED <<genVars, rand, probVars, mixVars>>
    /\ UNCHANGED reqVars

\* all blocks are drawn; create_pdf goes on to self._draw_answer_key(c, w, h)
BlocksDone ==
    /\ kind = "mixed" /\ lpc = "block"
    /\ blk >= Len(sections)
    /\ lpc' = "answer_key"
    /\ UNCHANGED <<pages, op, loopVars, sections>>
    /\ UNCHANGED <<genVars, rand, probVars, mixVars>>
    /\ UNCHANGED reqVars

(***************************************************************************)
(* The web API (main.py): POST /generate and GET /defaults.                *)
(***************************************************************************)
DEFAULT_N == 100
DefaultChunk == 25
MaxChunk == 50
limit == 50

\* the keys of PROBLEM_CLASS_MAP, in the order of the table
TypeNames == <<"multiplication", "addition", "subtraction", "division",
               "missingfactor", "fractioncompare">>

\* PROBLEM_CLASS_MAP.get(name)
PROBLEM_CLASS_MAP(name) ==
    CASE name = "multiplication" -> Multiplication
      [] name = "addition" -> Addition
      [] name = "subtraction" -> Subtraction
      [] name = "division" -> Division
      [] name = "missingfactor" -> MissingFactor
      [] name = "fractioncompare" -> FractionCompare
      [] OTHER -> None

\* str.lower() on the names a request may carry
Lower(name) ==
    CASE name = "Division" -> "division"
      [] name = "ADDITION" -> "addition"
      [] OTHER -> name

\* faulty variant: an inverted range is let through
ParseRangeOkNoOrder(txt) ==
    LET parts == SplitDots(txt)
    IN  Len(parts) = 2 /\ IsIntLiteral(parts[1]) /\ IsIntLiteral(parts[2])
\* parse_range(txt) returns (does not raise ValueError)
ParseRangeOk(txt) ==
    LET parts == SplitDots(txt)
    IN  /\ Len(parts) = 2 /\ IsIntLiteral(parts[1]) /\ IsIntLiteral(parts[2])
        /\ ParseInt(parts[1]) <= ParseInt(parts[2])

\* parse_range(txt): (a, b)
parse_range(txt) ==
    LET parts == SplitDots(txt)
    IN  <<ParseInt(parts[1]), ParseInt(parts[2])>>

\* f"{lo}..{hi}"
RangeText(r) == Str(r[1]) \o <<".", ".">> \o Str(r[2])

\* payload.get(key) is truthy
Truthy(f) == f.given /\ f.v # <<>>

\* request bodies
TypeInputs ==
    {Absent, Given(<<>>), Given(<<"addition">>), Given(<<"Division">>),
     Given(<<"fractioncompare">>), Given(<<"bogus">>),
     Given(<<"subtraction", "missingfactor">>),
     Given(<<"multiplication", "bogus">>)}
NumberInputs ==
    {Absent, Given(<<"0">>), Given(<<"-", "5">>), Given(<<"2">>), Given(<<"x">>)}
ChunkInputs ==
    {Absent, Given(<<"0">>), Given(<<"5", "1">>), Given(<<"5", "0">>)}
RangeInputs ==
    {Absent, Given(<<>>), Given(<<"2", ".", ".", "3">>),
     Given(<<"1", "2", ".", ".", "3">>), Given(<<"a", "b", "c">>)}
DefaultsInputs ==
    {<<>>,
     <<[name |-> "ADDITION", term1 |-> Given(<<"2", ".", ".", "4">>),
        term2 |-> Given(<<"1", ".", ".", "3">>)]>>,
     <<[name |-> "subtraction", term1 |-> Given(<<"1", "2", ".", ".", "3">>),
        term2 |-> Given(<<"1", ".", ".", "3">>)]>>,
     <<[name |-> "missingfactor", term1 |-> Given(<<"2", ".", ".", "4">>),
        term2 |-> Absent]>>,
     <<[name |-> "fractioncompare", term1 |-> Given(<<"1", ".", ".", "3">>),
        term2 |-> Given(<<"2", ".", ".", "3">>)],
       [name |-> "bogus", term1 |-> Absent, term2 |-> Absent]>>,
     <<[name |-> "fractioncompare", term1 |-> Given(<<"1", ".", ".", "3">>),
        term2 |-> Given(<<"2", ".", ".", "3">>)]>>}

Payloads ==
    [problem_types : TypeInputs, n : NumberInputs, chunk : ChunkInputs,
     defaults : DefaultsInputs, term1 : RangeInputs, term2 : RangeInputs]

\* OUTPUT_DIR holding k files, oldest first; a file is named by a number
OldFiles(k) == [j \in 1..k |-> j]

\* a request arrives; OUTPUT_DIR is empty, or holds limit - 1 or limit files
InitRequest ==
    /\ payload \in Payloads
    /\ rpc = "types"
    /\ classes = <<>> /\ req_n = 0 /\ chunk = 0 /\ per_type_ranges = <<>>
    /\ out_path = 0 /\ calls = <<>> /\ generated = <<>>
    /\ files \in {OldFiles(0), OldFiles(limit - 1), OldFiles(limit)}
    /\ response = NoResponse
    /\ InitConcIdle
    /\ rand = None
    /\ InitGenIdle
    /\ InitProblemIdle
    /\ InitLayoutIdle

otherVars == <<genVars, rand, probVars, layoutVars, concVars>>

\* raise HTTPException(status_code=400, detail=...)
Reject(detail) ==
    /\ response' = [status |-> 400, detail |-> detail, url |-> 0, body |-> <<>>]
    /\ rpc' = "rejected"

\* types = payload.get("problem_types"); the loop that fills classes
ReqTypes ==
    /\ rpc = "types"
    /\ LET types == payload.problem_types
       IN  IF ~Truthy(types)
           THEN Reject("'problem_types' must be a non-empty list") /\ UNCHANGED classes
           ELSE IF \E i \in 1..Len(types.v) : PROBLEM_CLASS_MAP(Lower(types.v[i])) = None
           THEN Reject("Unknown problem type") /\ UNCHANGED classes
           ELSE /\ classes' = [i \in 1..Len(types.v) |->
                                  PROBLEM_CLASS_MAP(Lower(types.v[i]))]
                /\ rpc' = "n"
                /\ UNCHANGED response
    /\ UNCHANGED <<payload, req_n, chunk, per_type_ranges, out_path, calls,
                   generated, files>>
    /\ UNCHANGED otherVars

\* n = int(payload.get("n", DEFAULT_N)); if n <= 0
ReqN ==
    /\ rpc = "n"
    /\ LET txt == IF payload.n.given THEN payload.n.v ELSE Str(DEFAULT_N)
       IN  IF ~IsIntLiteral(txt)
           THEN Reject("'n' must be an integer") /\ UNCHANGED req_n
           ELSE IF ParseInt(txt) <= 0
           THEN Reject("'n' must be positive") /\ UNCHANGED req_n
           ELSE req_n' = ParseInt(txt) /\ rpc' = "chunk" /\ UNCHANGED response
    /\ UNCHANGED <<payload, classes, chunk, per_type_ranges, out_path, calls,
                   generated, files>>
    /\ UNCHANGED otherVars

\* chunk = int(payload.get("chunk", 25)); if chunk <= 0 or chunk > 50
ReqChunk ==
    /\ rpc = "chunk"
    /\ LET txt == IF payload.chunk.given THEN payload.chunk.v ELSE Str(DefaultChunk)
       IN  IF ~IsIntLiteral(txt)
           THEN Reject("'chunk' must be an integer") /\ UNCHANGED chunk
           ELSE IF ParseInt(txt) <= 0 \/ ParseInt(txt) > MaxChunk
           THEN Reject("'chunk' must be between 1 and 50") /\ UNCHANGED chunk
           ELSE chunk' = ParseInt(txt) /\ rpc' = "overrides" /\ UNCHANGED response
    /\ UNCHANGED <<payload, classes, req_n, per_type_ranges, out_path, calls,
                   generated, files>>
    /\ UNCHANGED otherVars

\* what one pass of the loop over payload["defaults"] ends with
OverrideError(e) ==
    CASE PROBLEM_CLASS_MAP(Lower(e.name)) = None -> "Unknown problem type in defaults"
      [] PROBLEM_CLASS_MAP(Lower(e.name)) # None /\ ~e.term1.given ->
            "Both term1 and term2 must be provided"
      [] PROBLEM_CLASS_MAP(Lower(e.name)) # None /\ e.term1.given
           /\ ~ParseRangeOk(e.term1.v) -> "Ranges must be in 'min..max' format"
      [] PROBLEM_CLASS_MAP(Lower(e.name)) # None /\ e.term1.given
           /\ ParseRangeOk(e.term1.v) /\ ~e.term2.given ->
            "Both term1 and term2 must be provided"
      [] PROBLEM_CLASS_MAP(Lower(e.name)) # None /\ e.term1.given
           /\ ParseRangeOk(e.term1.v) /\ e.term2.given /\ ~ParseRangeOk(e.term2.v) ->
            "Ranges must be in 'min..max' format"
      [] OTHER -> ""

\* the loop over payload.get("defaults", {}).items()
ReqOverrides ==
    /\ rpc = "overrides"
    /\ LET d == payload.defaults
       IN  IF \E i \in 1..Len(d) : OverrideError(d[i]) # ""
           THEN LET i == CHOOSE i \in 1..Len(d) :
                            /\ OverrideError(d[i]) # ""
                            /\ \A j \in 1..(i - 1) : OverrideError(d[j]) = ""
                IN  Reject(OverrideError(d[i])) /\ UNCHANGED per_type_ranges
           ELSE /\ per_type_ranges' =
                      [i \in 1..Len(d) |->
                          [cls |-> PROBLEM_CLASS_MAP(Lower(d[i].name)),
                           t1 |-> parse_range(d[i].term1.v),
                           t2 |-> parse_range(d[i].term2.v)]]
                /\ rpc' = "file"
                /\ UNCHANGED response
    /\ UNCHANGED <<payload, classes, req_n, chunk, out_path, calls, generated, files>>
    /\ UNCHANGED otherVars

\* uuid4().hex: a name no file of the directory has
FreshName(fs) ==
    1 + (IF fs = <<>> THEN 0
         ELSE CHOOSE m \in {fs[i] : i \in 1..Len(fs)} : \A i \in 1..Len(fs) : fs[i] <= m)

\* file_id = uuid4().hex; out_path = OUTPUT_DIR / ...; if len(classes) == 1
ReqFile ==
    /\ rpc = "file"
    /\ out_path' = FreshName(files)
    /\ rpc' = IF Len(classes) = 1 THEN "single" ELSE "multi"
    /\ UNCHANGED <<payload, classes, req_n, chunk, per_type_ranges, calls,
                   generated, files, response>>
    /\ UNCHANGED otherVars

\* cls in per_type_ranges
HasOverride(ptr, c) == \E i \in 1..Len(ptr) : ptr[i].cls = c

\* per_type_ranges[cls] if there is one, else PROBLEM_DEFAULTS[cls]; a later
\* entry for the same class has replaced an earlier one
RangesFor(ptr, c) ==
    IF HasOverride(ptr, c)
    THEN LET i == CHOOSE i \in 1..Len(ptr) :
                      ptr[i].cls = c /\ \A j \in (i + 1)..Len(ptr) : ptr[j].cls # c
         IN  <<ptr[i].t1, ptr[i].t2>>
    ELSE PROBLEM_DEFAULTS(c)

\* the single-type branch up to WorksheetGenerator(cls, n, term1_range, ...)
ReqSingle ==
    /\ rpc = "single"
    /\ LET c == classes[1]
           term1_txt == payload.term1
           term2_txt == payload.term2
       IN  IF term1_txt.given # term2_txt.given
           THEN Reject("Provide BOTH term1 and term2 or neither") /\ UNCHANGED calls
           ELSE IF Truthy(term1_txt)
           THEN IF ParseRangeOk(term1_txt.v) /\ ParseRangeOk(term2_txt.v)
                THEN /\ calls' = <<[cls |-> c, t1 |-> parse_range(term1_txt.v),
                                    t2 |-> parse_range(term2_txt.v)]>>
                     /\ rpc' = "generate"
                     /\ UNCHANGED response
                ELSE Reject("Ranges must be in 'min..max' format") /\ UNCHANGED calls
           ELSE /\ calls' = <<[cls |-> c, t1 |-> RangesFor(per_type_ranges, c)[1],
                               t2 |-> RangesFor(per_type_ranges, c)[2]]>>
                /\ rpc' = "generate"
                /\ UNCHANGED response
    /\ UNCHANGED <<payload, classes, req_n, chunk, per_type_ranges, out_path,
                   generated, files>>
    /\ UNCHANGED otherVars

\* the multi-type branch: term1/term2 are refused, every class gets its
\* overrides or its defaults
ReqMulti ==
    /\ rpc = "multi"
    /\ IF Truthy(payload.term1) \/ Truthy(payload.term2)
       THEN Reject("term1/term2 not allowed with multiple types") /\ UNCHANGED calls
       ELSE /\ calls' = [i \in 1..Len(classes) |->
                            [cls |-> classes[i],
                             t1 |-> RangesFor(per_type_ranges, classes[i])[1],
                             t2 |-> RangesFor(per_type_ranges, classes[i])[2]]]
            /\ rpc' = "generate"
            /\ UNCHANGED response
    /\ UNCHANGED <<payload, classes, req_n, chunk, per_type_ranges, out_path,
                   generated, files>>
    /\ UNCHANGED otherVars

\* a generator call with these ranges can return / can raise: it returns
\* when every slot draws a pair the constructor accepts, and raises at the
\* first draw the constructor refuses
CanReturn(c, t1, t2) ==
    ~(\A a \in Randint(t1), b \in Randint(t2) : CtorRaises(c, a, b))
CanRaise(c, t1, t2) ==
    ~(\A a \in Randint(t1), b \in Randint(t2) : ~CtorRaises(c, a, b))

\* gen.generate_problems() / make_problems(cls, n, t1, t2) returns n problems
ReqGenerate ==
    /\ rpc = "generate" /\ calls # <<>>
    /\ CanReturn(calls[1].cls, calls[1].t1, calls[1].t2)
    /\ generated' = Append(generated, [cls |-> calls[1].cls, t1 |-> calls[1].t1,
                                       t2 |-> calls[1].t2, len |-> req_n])
    /\ calls' = Tail(calls)
    /\ UNCHANGED <<payload, rpc, classes, req_n, chunk, per_type_ranges, out_path,
                   files, response>>
    /\ UNCHANGED otherVars

\* the generator call raises ValueError: the request fails with status 500
ReqGenerateRaise ==
    /\ rpc = "generate" /\ calls # <<>>
    /\ CanRaise(calls[1].cls, calls[1].t1, calls[1].t2)
    /\ response' = [status |-> 500, detail |-> "Internal Server Error", url |-> 0,
                    body |-> <<>>]
    /\ rpc' = "failed"
    /\ UNCHANGED <<payload, classes, req_n, chunk, per_type_ranges, out_path,
                   calls, generated, files>>
    /\ UNCHANGED otherVars

\* gen.create_pdf(): c.save() writes the document, the newest file
ReqCreatePdf ==
    /\ rpc = "generate" /\ calls = <<>>
    /\ files' = Append(files, out_path)
    /\ rpc' = "clean"
    /\ UNCHANGED <<payload, classes, req_n, chunk, per_type_ranges, out_path,
                   calls, generated, response>>
    /\ UNCHANGED otherVars

\* faulty variant: nothing is deleted
clean_old_files_Keep(fs, lim) == fs
\* clean_old_files(limit): for p in pdfs[:-limit]: p.unlink()
clean_old_files(fs, lim) ==
    IF Len(fs) > lim THEN SubSeq(fs, Len(fs) - lim + 1, Len(fs)) ELSE fs

\* clean_old_files(); return {"url": ...}
ReqReturn ==
    /\ rpc = "clean"
    /\ files' = clean_old_files(files, limit)
    /\ response' = [status |-> 200, detail |-> "", url |-> out_path, body |-> <<>>]
    /\ rpc' = "done"
    /\ UNCHANGED <<payload, classes, req_n, chunk, per_type_ranges, out_path,
                   calls, generated>>
    /\ UNCHANGED otherVars

\* faulty variant: the defaults of Division answered for MissingFactor too
DefaultsBodyDivisionTwice ==
    [i \in 1..Len(TypeNames) |->
        LET c == IF TypeNames[i] = "missingfactor" THEN Division
                 ELSE PROBLEM_CLASS_MAP(TypeNames[i])
        IN  [name |-> TypeNames[i],
             term1 |-> RangeText(PROBLEM_DEFAULTS(c)[1]),
             term2 |-> RangeText(PROBLEM_DEFAULTS(c)[2])]]
\* the object get_defaults returns, in the order of PROBLEM_CLASS_MAP
DefaultsBody ==
    [i \in 1..Len(TypeNames) |->
        [name |-> TypeNames[i],
         term1 |-> RangeText(PROBLEM_DEFAULTS(PROBLEM_CLASS_MAP(TypeNames[i]))[1]),
         term2 |-> RangeText(PROBLEM_DEFAULTS(PROBLEM_CLASS_MAP(TypeNames[i]))[2])]]

\* GET /defaults, which the page asks for before it posts a request
GetDefaults ==
    /\ rpc = "types"
    /\ response.body = <<>>
    /\ response' = [status |-> 200, detail |-> "", url |-> 0, body |-> DefaultsBody]
    /\ UNCHANGED <<payload, rpc, classes, req_n, chunk, per_type_ranges, out_path,
                   calls, generated, files>>
    /\ UNCHANGED otherVars

(***************************************************************************)
(* A sequence of requests to one server: when a request is over the next   *)
(* one arrives and finds OUTPUT_DIR as the earlier ones left it.           *)
(***************************************************************************)
MaxRequests == 2   \* requests that follow the one that fills OUTPUT_DIR

\* the bodies of the requests in a sequence: one type, several types, no
\* type, and a type whose overrides the generator can fail on
RetentionPayloads ==
    [problem_types : {Absent, Given(<<"addition">>), Given(<<"fractioncompare">>),
                      Given(<<"subtraction", "missingfactor">>)},
     n : {Absent}, chunk : {Absent},
     defaults : {<<>>,
                 <<[name |-> "fractioncompare",
                    term1 |-> Given(<<"1", ".", ".", "3">>),
                    term2 |-> Given(<<"2", ".", ".", "3">>)]>>},
     term1 : {Absent}, term2 : {Absent}]

\* the first request of a sequence; OUTPUT_DIR is empty or holds limit files
InitRetention ==
    /\ payload \in RetentionPayloads
    /\ rpc = "types"
    /\ classes = <<>> /\ req_n = 0 /\ chunk = 0 /\ per_type_ranges = <<>>
    /\ out_path = 0 /\ calls = <<>> /\ generated = <<>>
    /\ files \in {OldFiles(0), OldFiles(limit)}
    /\ response = NoResponse
    /\ InitConcIdle
    /\ rand = None
    /\ InitGenIdle
    /\ InitProblemIdle
    /\ InitLayoutIdle

\* the request has been answered (200, 400 or 500); the next one arrives
NewRequest ==
    /\ rpc \in {"done", "rejected", "failed"}
    /\ FreshName(files) <= limit + MaxRequests
    /\ payload' \in RetentionPayloads
    /\ rpc' = "types"
    /\ classes' = <<>> /\ req_n' = 0 /\ chunk' = 0 /\ per_type_ranges' = <<>>
    /\ out_path' = 0 /\ calls' = <<>> /\ generated' = <<>>
    /\ response' = NoResponse
    /\ UNCHANGED files
    /\ UNCHANGED otherVars

(***************************************************************************)
(* Two requests served at the same time.  Each has its own locals          *)
(* (reqs[i]); worksheet_core.PROBLEM_DEFAULTS and OUTPUT_DIR are shared.   *)
(* Both requests have passed the checks of problem_types, n and chunk; a   *)
(* step is one pass of a loop of generate_worksheet or of make_problems.   *)
(***************************************************************************)
Requests == {1, 2}

\* the bodies of the requests: a type on the built-in ranges; the same type
\* with overrides; two types, one of them with overrides; a type whose
\* overrides the constructor can refuse; explicit term1/term2; a malformed
\* override
ConcPayloads ==
    {[problem_types |-> Given(<<"division">>), n |-> Given(<<"1">>), chunk |-> Absent,
      defaults |-> <<>>, term1 |-> Absent, term2 |-> Absent],
     [problem_types |-> Given(<<"division">>), n |-> Given(<<"2">>), chunk |-> Absent,
      defaults |-> <<[name |-> "division", term1 |-> Given(<<"2", ".", ".", "3">>),
                      term2 |-> Given(<<"2", ".", ".", "2">>)]>>,
      term1 |-> Absent, term2 |-> Absent],
     [problem_types |-> Given(<<"subtraction", "division">>), n |-> Given(<<"1">>),
      chunk |-> Absent,
      defaults |-> <<[name |-> "subtraction", term1 |-> Given(<<"5", ".", ".", "6">>),
                      term2 |-> Given(<<"2", ".", ".", "2">>)]>>,
      term1 |-> Absent, term2 |-> Absent],
     [problem_types |-> Given(<<"fractioncompare">>), n |-> Given(<<"1">>),
      chunk |-> Absent,
      defaults |-> <<[name |-> "fractioncompare", term1 |-> Given(<<"1", ".", ".", "2">>),
                      term2 |-> Given(<<"2", ".", ".", "2">>)]>>,
      term1 |-> Absent, term2 |-> Absent],
     [problem_types |-> Given(<<"Division">>), n |-> Given(<<"1">>), chunk |-> Absent,
      defaults |-> <<[name |-> "division", term1 |-> Given(<<"5", ".", ".", "6">>),
                      term2 |-> Given(<<"5", ".", ".", "6">>)]>>,
      term1 |-> Given(<<"2", ".", ".", "3">>), term2 |-> Given(<<"2", ".", ".", "2">>)],
     [problem_types |-> Given(<<"division">>), n |-> Given(<<"1">>), chunk |-> Absent,
      defaults |-> <<[name |-> "division", term1 |-> Given(<<"2", ".", ".", "3">>),
                      term2 |-> Given(<<"a", "b", "c">>)]>>,
      term1 |-> Absent, term2 |-> Absent]}

\* the locals of a request that has reached the loop over payload["defaults"]
NewReq(p) ==
    [payload |-> p,
     pc |-> "overrides",
     classes |-> [t \in 1..Len(p.problem_types.v) |->
                     PROBLEM_CLASS_MAP(Lower(p.problem_types.v[t]))],
     n |-> ParseInt(IF p.n.given THEN p.n.v ELSE Str(DEFAULT_N)),
     k |-> 1, per_type_ranges |-> <<>>, out_path |-> 0,
     c |-> 0, used |-> <<>>,
     cls |-> None, t1 |-> <<0, 0>>, t2 |-> <<0, 0>>,
     plist |-> <<>>, recent |-> <<>>, slot |-> 0, attempt |-> 0,
     lists |-> <<>>]

InitConcurrent ==
    /\ reqs \in [Requests -> {NewReq(p) : p \in ConcPayloads}]
    /\ defaults_table = BuiltinTable
    /\ files = <<>>
    /\ payload = NoPayload /\ rpc = "idle" /\ classes = <<>> /\ req_n = 0
    /\ chunk = 0 /\ per_type_ranges = <<>> /\ out_path = 0 /\ calls = <<>>
    /\ generated = <<>> /\ response = NoResponse
    /\ rand = None
    /\ InitGenIdle
    /\ InitProblemIdle
    /\ InitLayoutIdle

\* what a step of the two requests leaves alone, but for OUTPUT_DIR
concOther == <<genVars, rand, probVars, layoutVars, payload, rpc, classes, req_n,
               chunk, per_type_ranges, out_path, calls, generated, response>>

\* faulty variant: the override is written into the shared table
StoreOverrideInTable(tbl, ptr, e) ==
    [table |-> [tbl EXCEPT ![e.cls] = <<e.t1, e.t2>>], ptr |-> ptr]
\* per_type_ranges[cls] = (t1, t2): the request's own dict gets the entry
StoreOverride(tbl, ptr, e) == [table |-> tbl, ptr |-> Append(ptr, e)]

\* one pass of the loop over payload.get("defaults", {}).items()
COverride(i) ==
    /\ reqs[i].pc = "overrides"
    /\ LET q == reqs[i]
           d == q.payload.defaults
       IN  IF q.k > Len(d)
           THEN reqs' = [reqs EXCEPT ![i].pc = "file"] /\ UNCHANGED defaults_table
           ELSE IF OverrideError(d[q.k]) # ""
           THEN reqs' = [reqs EXCEPT ![i].pc = "rejected"] /\ UNCHANGED defaults_table
           ELSE LET e == [cls |-> PROBLEM_CLASS_MAP(Lower(d[q.k].name)),
                          t1 |-> parse_range(d[q.k].term1.v),
                          t2 |-> parse_range(d[q.k].term2.v)]
                    st == StoreOverride(defaults_table, q.per_type_ranges, e)
                IN  /\ defaults_table' = st.table
                    /\ reqs' = [reqs EXCEPT ![i].per_type_ranges = st.ptr,
                                            ![i].k = q.k + 1]
    /\ UNCHANGED <<files, concOther>>

\* file_id, out_path, and the checks of term1/term2 of either branch
CFile(i) ==
    /\ reqs[i].pc = "file"
    /\ LET q == reqs[i]
           term1_txt == q.payload.term1
           term2_txt == q.payload.term2
           refused ==
               IF Len(q.classes) = 1
               THEN \/ term1_txt.given # term2_txt.given
                    \/ /\ Truthy(term1_txt)
                       /\ ~(ParseRangeOk(term1_txt.v) /\ ParseRangeOk(term2_txt.v))
               ELSE Truthy(term1_txt) \/ Truthy(term2_txt)
       IN  reqs' = [reqs EXCEPT ![i].out_path = i,
                                ![i].pc = IF refused THEN "rejected" ELSE "lookup",
                                ![i].c = 1]
    /\ UNCHANGED <<defaults_table, files, concOther>>

\* per_type_ranges[cls] if the request has one, else PROBLEM_DEFAULTS[cls]
RangesIn(tbl, ptr, c) == IF HasOverride(ptr, c) THEN RangesFor(ptr, c) ELSE tbl[c]

\* the ranges of the next class are looked up and its generator call begins:
\* recent = [], plist = []
CLookup(i) ==
    /\ reqs[i].pc = "lookup"
    /\ LET q == reqs[i]
           cl == q.classes[q.c]
           rg == IF Len(q.classes) = 1 /\ Truthy(q.payload.term1)
                 THEN <<parse_range(q.payload.term1.v), parse_range(q.payload.term2.v)>>
                 ELSE RangesIn(defaults_table, q.per_type_ranges, cl)
       IN  reqs' = [reqs EXCEPT ![i].cls = cl, ![i].t1 = rg[1], ![i].t2 = rg[2],
                                ![i].used = Append(@, [cls |-> cl, t1 |-> rg[1],
                                                       t2 |-> rg[2]]),
                                ![i].plist = <<>>, ![i].recent = <<>>,
                                ![i].slot = 0, ![i].attempt = 0,
                                ![i].pc = "loop"]
    /\ UNCHANGED <<defaults_table, files, concOther>>

\* one draw of the generator loop of request i: a collision, an accepted
\* pair, the fallback after 50 collisions, or a constructor that raises
CDraw(i) ==
    /\ reqs[i].pc = "loop" /\ reqs[i].slot < reqs[i].n
    /\ LET q == reqs[i]
       IN  \E a \in Randint(q.t1), b \in Randint(q.t2) :
              IF q.attempt < MaxAttempts /\ ~NotInRecent(q.recent, a, b)
              THEN reqs' = [reqs EXCEPT ![i].attempt = q.attempt + 1]
              ELSE IF CtorRaises(q.cls, a, b)
              THEN reqs' = [reqs EXCEPT ![i].pc = "failed"]
              ELSE \E r \in CtorRands(q.cls, a, b) :
                      reqs' = [reqs EXCEPT
                                 ![i].plist = Append(@, NewProblem(q.cls, a, b, r)),
                                 ![i].recent = IF q.attempt < MaxAttempts
                                               THEN PushRecent(@, a, b) ELSE @,
                                 ![i].slot = q.slot + 1,
                                 ![i].attempt = 0]
    /\ UNCHANGED <<defaults_table, files, concOther>>

\* the generator call returns its list (kept as its class and length), its
\* locals are gone; the next class, or the document
CReturn(i) ==
    /\ reqs[i].pc = "loop" /\ reqs[i].slot = reqs[i].n
    /\ LET q == reqs[i]
       IN  reqs' = [reqs EXCEPT ![i].lists = Append(@, [cls |-> q.cls,
                                                       len |-> Len(q.plist)]),
                                ![i].plist = <<>>, ![i].recent = <<>>,
                                ![i].c = IF q.c < Len(q.classes) THEN q.c + 1 ELSE q.c,
                                ![i].pc = IF q.c < Len(q.classes) THEN "lookup" ELSE "pdf"]
    /\ UNCHANGED <<defaults_table, files, concOther>>

\* gen.create_pdf() writes the document of request i
CCreatePdf(i) ==
    /\ reqs[i].pc = "pdf"
    /\ files' = Append(files, reqs[i].out_path)
    /\ reqs' = [reqs EXCEPT ![i].pc = "clean"]
    /\ UNCHANGED <<defaults_table, concOther>>

\* clean_old_files(); return
CClean(i) ==
    /\ reqs[i].pc = "clean"
    /\ files' = clean_old_files(files, limit)
    /\ reqs' = [reqs EXCEPT ![i].pc = "done"]
    /\ UNCHANGED <<defaults_table, concOther>>

vars == <<cls, n, term1_range, term2_range, plist, recent, slot, attempt,
          gpc, rand, arg, obj, lines, answer, ppc,
          kind, problems_by_type, all_problems, chunk_size, sections, pages, op,
          idx, grid_r, grid_col, blk, blk_i, ans_i, page_idx, lpc,
          payload, rpc, classes, req_n, chunk, per_type_ranges, out_path,
          calls, generated, files, response,
          defaults_table, reqs>>

Init == InitGen

Next == Call \/ DrawAccept \/ DrawCollide \/ Fallback \/ DrawRaise \/ Return

\* the generator
Spec == Init /\ [][Next]_vars

NextWindow == DrawAccept \/ DrawCollide \/ Fallback \/ Return

\* the generator, late in a long call
SpecWindow == InitWindow /\ [][NextWindow]_vars

NextProblem == Construct \/ ConstructRaise \/ FormatProblem \/ GetAnswer

\* one problem object
SpecProblem == InitProblem /\ [][NextProblem]_vars

InitLayout == InitSingle \/ InitMixed

NextLayout ==
    \/ CreatePdf \/ PageStart \/ DrawCell \/ PagesDone
    \/ MixedCreatePdf \/ MixedCreatePdfRaise \/ BlockStart \/ DrawBlockCell
    \/ BlocksDone
    \/ DrawAnswerKeyStart \/ DrawAnswer \/ Save

\* one call of create_pdf, single-type or mixed
SpecLayout == InitLayout /\ [][NextLayout]_vars

NextRequest ==
    \/ GetDefaults
    \/ ReqTypes \/ ReqN \/ ReqChunk \/ ReqOverrides \/ ReqFile
    \/ ReqSingle \/ ReqMulti
    \/ ReqGenerate \/ ReqGenerateRaise \/ ReqCreatePdf \/ ReqReturn

\* one request to the web API
SpecRequest == InitRequest /\ [][NextRequest]_vars

NextRetention == NextRequest \/ NewRequest

\* a sequence of requests to the web API
SpecRetention == InitRetention /\ [][NextRetention]_vars

NextConcurrent ==
    \E i \in Requests :
        \/ COverride(i) \/ CFile(i) \/ CLookup(i) \/ CDraw(i) \/ CReturn(i)
        \/ CCreatePdf(i) \/ CClean(i)

\* two requests to the web API, interleaved
SpecConcurrent == InitConcurrent /\ [][NextConcurrent]_vars

(***************************************************************************)
(* Reading rendered text back: splitting at blanks.                        *)
(***************************************************************************)
RECURSIVE Tokens(_)
Tokens(s) ==
    IF s = <<>> THEN <<>>
    ELSE IF s[1] = " " THEN Tokens(Tail(s))
    ELSE LET k == IF \E i \in 1..Len(s) : s[i] = " "
                  THEN (CHOOSE i \in 1..Len(s) :
                            s[i] = " " /\ \A j \in 1..(i - 1) : s[j] # " ") - 1
                  ELSE Len(s)
         IN  <<SubSeq(s, 1, k)>> \o Tokens(SubSeq(s, k + 1, Len(s)))

(***************************************************************************)
(* Claims about the generator (Spec).                                      *)
(***************************************************************************)

\* C1: for every problem type, every count >= 1 and every pair of valid
\* ranges the generator call returns, and returns exactly count problems.
C1_ReturnsExactlyCount ==
    /\ gpc # "raised"
    /\ gpc = "done" => Len(plist) = n

\* C2: every Division problem the generator produces from valid ranges has
\* dividend = divisor * quotient, a divisor other than 0, and an answer equal
\* to dividend / divisor.
C2_DivisionExact ==
    \A i \in 1..Len(plist) :
        plist[i].cls = Division =>
            /\ plist[i].dividend = plist[i].divisor * plist[i].quotient
            /\ plist[i].divisor # 0
            /\ ParseInt(get_answer(plist[i])) * plist[i].divisor = plist[i].dividend
            /\ get_answer(plist[i]) = Str(plist[i].quotient)

\* C6: every generated subtraction problem has an answer (first term minus
\* second term) greater than or equal to 0.
C6_SubtractionNonNegative ==
    \A i \in 1..Len(plist) :
        plist[i].cls = Subtraction =>
            /\ ParseInt(get_answer(plist[i])) >= 0
            /\ ParseInt(format_problem(plist[i])[1])
                 - ParseInt(Tokens(format_problem(plist[i])[2])[2]) >= 0

\* the last ten elements of a sequence (all of them, if there are fewer)
LastTen(q) == IF Len(q) <= 10 THEN q ELSE SubSeq(q, Len(q) - 9, Len(q))

InWindow(pair) == \E i \in 1..Len(recent) : recent[i] = pair

\* C18: during a generation call the window holds the last 10 accepted pairs
\* (all of them while there are fewer than 10), the oldest leaving first; a
\* draw made within the 50 attempts of a slot is accepted (its problem
\* appended, the pair entering the window) exactly when the pair is not in
\* the window, and a draw in the window changes neither window nor list; the
\* fallback draw does not enter the window.
C18_WindowOfLastTen ==
    /\ [](/\ Len(recent) <= 10
          /\ \A i \in 1..Len(recent) : \A j \in 1..Len(recent) :
                recent[i] = recent[j] => i = j)
    /\ [][(gpc = "loop" /\ attempt < 50 /\ gpc' # "done"
             /\ <<slot, attempt, gpc>>' # <<slot, attempt, gpc>>) =>
            LET pair == <<rand'.a, rand'.b>>
            IN  /\ pair[1] \in term1_range[1]..term1_range[2]
                /\ pair[2] \in term2_range[1]..term2_range[2]
                /\ InWindow(pair) <=> (attempt' = attempt + 1 /\ slot' = slot)
                /\ InWindow(pair) => (recent' = recent /\ plist' = plist)
                /\ ~InWindow(pair) =>
                      \/ gpc' = "raised"
                      \/ /\ slot' = slot + 1 /\ attempt' = 0
                         /\ Len(plist') = Len(plist) + 1
                         /\ recent' = LastTen(Append(recent, pair))
                         /\ recent'[Len(recent')] = pair
                         /\ Len(recent) = 10 => recent' = Tail(recent) \o <<pair>>]_vars
    /\ [][(gpc = "loop" /\ attempt = 50) => recent' = recent]_vars

\* an 11th pair has been accepted: (2,2), the oldest, has left the window,
\* which holds ten pairs from (2,3) on, the new one last
C18_Witness ==
    /\ gpc = "loop" /\ slot = 11 /\ attempt = 0
    /\ Len(plist) = 11
    /\ Len(recent) = 10
    /\ recent[1] = <<2, 3>>
    /\ recent[10] = <<rand.a, rand.b>>
    /\ \A i \in 1..10 : recent[i] # <<2, 2>>

\* C19: generation makes progress and ends: a slot takes at most 50 draws
\* checked against the window and then at most one fallback draw, taken only
\* when all 50 collided; every slot ends with exactly one problem appended,
\* no error is raised when the 50 attempts are exhausted, and the call is
\* over after at most 51 * count draws.
C19_SlotsFilledWithinBound ==
    /\ [](/\ attempt <= 50
          /\ slot <= n
          /\ 51 * slot + attempt <= 51 * n
          /\ gpc \in {"loop", "done"} => Len(plist) = slot
          /\ gpc = "done" => slot = n
          /\ ~(gpc = "raised" /\ attempt = 50))
    /\ [][(gpc = "loop" /\ gpc' = "loop"
             /\ <<slot, attempt>>' # <<slot, attempt>>) =>
            /\ 51 * slot' + attempt' > 51 * slot + attempt
            /\ slot' \in {slot, slot + 1}
            /\ Len(plist') = Len(plist) + (slot' - slot)
            /\ (slot' = slot + 1 /\ recent' = recent) => attempt = 50]_vars

Degenerate ==
    term1_range[1] = term1_range[2] /\ term2_range[1] = term2_range[2]

\* C20: with both ranges of a single value and count >= 2 the first slot is
\* accepted on its first attempt, every later slot has its 50 attempts
\* collide and is filled by the fallback draw, all problems carry the one
\* pair, and no error is raised.
C20_DegenerateRanges ==
    /\ []((Degenerate /\ n >= 2 /\ gpc # "call") =>
            /\ gpc # "raised"
            /\ slot = 0 => attempt = 0
            /\ slot >= 1 => recent = <<<<term1_range[1], term2_range[1]>>>>
            /\ Len(plist) = slot
            /\ \A i \in 1..Len(plist) :
                  \E r \in CtorRands(cls, term1_range[1], term2_range[1]) :
                      plist[i] = NewProblem(cls, term1_range[1], term2_range[1], r))
    /\ [][(Degenerate /\ n >= 2 /\ gpc = "loop" /\ slot' = slot + 1) =>
            IF slot = 0 THEN attempt = 0 /\ recent' # recent
            ELSE attempt = 50 /\ recent' = recent]_vars

(***************************************************************************)
(* Claims about one problem object (SpecProblem).                          *)
(***************************************************************************)

\* C3: a FractionCompare problem built from denominators d1, d2 and drawn
\* numerators n1, n2 answers "<" exactly when n1*d2 < n2*d1, ">" exactly when
\* n1*d2 > n2*d1 and "=" exactly when n1*d2 = n2*d1.
C3_FractionAnswerExact ==
    (ppc = "built" /\ arg.cls = FractionCompare /\ answer # None) =>
        LET l == rand.r.n1 * arg.b
            r == rand.r.n2 * arg.a
        IN  /\ answer \in {<<"<">>, <<">">>, <<"=">>}
            /\ answer = <<"<">> <=> l < r
            /\ answer = <<">">> <=> l > r
            /\ answer = <<"=">> <=> l = r

\* 3/4 against 5/6 has been answered "<", and the problem shows 3/4 and 5/6
C3_Witness ==
    /\ ppc = "built" /\ arg.cls = FractionCompare
    /\ arg.a = 4 /\ arg.b = 6 /\ rand.r.n1 = 3 /\ rand.r.n2 = 5
    /\ obj.f1 = [numerator |-> 3, denominator |-> 4]
    /\ obj.f2 = [numerator |-> 5, denominator |-> 6]
    /\ answer # None /\ answer = <<"<">>

\* C4: a MissingFactor problem has prod = a * b, and its answer is the factor
\* blanked in the rendered equation, so that shown factor * answer = prod.
C4_MissingFactorAnswer ==
    (ppc = "built" /\ arg.cls = MissingFactor /\ answer # None /\ lines # None) =>
        LET t == Tokens(lines[1])
        IN  /\ obj.prod = obj.a * obj.b
            /\ Len(lines) = 1 /\ Len(t) = 5
            /\ t[2] = <<"×">> /\ t[4] = <<"=">>
            /\ ParseInt(t[5]) = obj.prod
            /\ (t[1] = Blank2) # (t[3] = Blank2)
            /\ t[1] = Blank2 =>
                  /\ answer = Str(obj.a)
                  /\ ParseInt(t[3]) = obj.b
                  /\ ParseInt(t[3]) * ParseInt(answer) = ParseInt(t[5])
            /\ t[3] = Blank2 =>
                  /\ answer = Str(obj.b)
                  /\ ParseInt(t[1]) = obj.a
                  /\ ParseInt(t[1]) * ParseInt(answer) = ParseInt(t[5])

\* "__ × 7 = 21" has been rendered and answered 3
C4_Witness ==
    /\ ppc = "built" /\ arg.cls = MissingFactor
    /\ arg.a = 3 /\ arg.b = 7
    /\ lines # None /\ answer # None
    /\ lines = <<<<"_", "_", " ", "×", " ", "7", " ", "=", " ", "2", "1">>>>
    /\ answer = <<"3">>

\* C5: for an Addition, Subtraction or Multiplication problem with displayed
\* operands a and b the answer is a + b, a - b, a * b respectively.
C5_ArithmeticAnswer ==
    (ppc = "built" /\ arg.cls \in {Addition, Subtraction, Multiplication}
        /\ answer # None /\ lines # None) =>
        LET a == ParseInt(lines[1])
            t == Tokens(lines[2])
            b == ParseInt(t[2])
        IN  /\ Len(lines) = 3 /\ Len(t) = 2
            /\ a = arg.a /\ b = arg.b
            /\ arg.cls = Addition => t[1] = <<"+">> /\ ParseInt(answer) = a + b
            /\ arg.cls = Subtraction => t[1] = <<"-">> /\ ParseInt(answer) = a - b
            /\ arg.cls = Multiplication => t[1] = <<"x">> /\ ParseInt(answer) = a * b

\* 5 - 7 has been rendered and answered -2
C5_Witness ==
    /\ ppc = "built" /\ arg.cls = Subtraction
    /\ lines # None /\ answer # None
    /\ lines = <<<<"5">>, <<"-", " ", "7">>, Blank3>>
    /\ answer = <<"-", "2">>

(***************************************************************************)
(* Claims about create_pdf (SpecLayout).                                   *)
(***************************************************************************)
Ceil(a, b) == (a + b - 1) \div b

\* pages that hold problems, pages that hold answer entries
ProblemPages == {k \in 1..Len(pages) : pages[k].np > 0}
AnswerPages == {k \in 1..Len(pages) : pages[k].na > 0}

RECURSIVE SumNp(_)
SumNp(k) == IF k = 0 THEN 0 ELSE pages[k].np + SumNp(k - 1)

RECURSIVE SumNa(_)
SumNa(k) == IF k = 0 THEN 0 ELSE pages[k].na + SumNa(k - 1)

LayoutDone == lpc \in {"answer_key", "answers", "saved"}

\* the problems in the order they were generated: the single list, or the
\* sections' lists one after the other
RECURSIVE LenUpTo(_)
LenUpTo(j) == IF j = 0 THEN 0 ELSE Len(problems_by_type[j].plist) + LenUpTo(j - 1)

TotalProblems == IF kind = "single" THEN Len(plist) ELSE LenUpTo(Len(problems_by_type))

NthGenerated(e) ==
    IF kind = "single" THEN plist[e]
    ELSE LET j == CHOOSE j \in 1..Len(problems_by_type) :
                      LenUpTo(j - 1) < e /\ e <= LenUpTo(j)
         IN  problems_by_type[j].plist[e - LenUpTo(j - 1)]

\* C7: single-type layout of count >= 1 problems makes exactly
\* ceil(count / 50) problem pages, for the 10x5 and the 5x10 grid alike; every
\* page but the last holds 50 problems, the last holds the rest (at least
\* one), and there is no empty problem page.
C7_SinglePageCount ==
    (kind = "single" /\ LayoutDone) =>
        LET np == Ceil(n, 50)
        IN  /\ Len(plist) = n
            /\ Grid(cls)[1] * Grid(cls)[2] = 50
            /\ ProblemPages = 1..np
            /\ \A k \in 1..(np - 1) : pages[k].np = 50
            /\ pages[np].np = n - 50 * (np - 1)
            /\ pages[np].np >= 1
            /\ Len(pages) = np + (IF lpc = "answer_key" THEN 0 ELSE 1)

\* 120 problems have been laid out on pages of 50, 50 and 20, then the key
C7_Witness ==
    /\ kind = "single" /\ lpc = "saved" /\ n = 120 /\ cls = MissingFactor
    /\ Len(pages) = 4
    /\ pages[1].np = 50 /\ pages[2].np = 50 /\ pages[3].np = 20
    /\ pages[4].np = 0

\* C8: in single-type and mixed create_pdf every answer entry is drawn on a
\* page after every problem page and no problem is drawn once the answer key
\* has begun; the key has as many entries as there are problems, and entry k
\* is "k. <answer of the k-th problem in generation order>".
C8_AnswerKeyAfterProblems ==
    /\ op.kind = "problem" =>
          /\ AnswerPages = {}
          /\ \A k \in 1..Len(pages) : ~pages[k].title
    /\ op.kind \in {"title", "answer"} =>
          /\ \A k \in ProblemPages : k < op.page
          /\ SumNp(Len(pages)) = TotalProblems
          /\ pages[op.page].np = 0
    /\ op.kind = "answer" =>
          LET e == SumNa(Len(pages))
          IN  /\ e \in 1..TotalProblems
              /\ Len(op.texts) = 1
              /\ op.texts[1].text =
                    Str(e) \o <<".", " ">> \o get_answer(NthGenerated(e))
    /\ lpc = "saved" =>
          /\ SumNa(Len(pages)) = TotalProblems
          /\ SumNp(Len(pages)) = TotalProblems

\* a mixed worksheet of two sections (30 and 10 problems) is saved, and its
\* last answer entry, the 40th, has been drawn after two problem pages
C8_Witness ==
    /\ kind = "mixed" /\ lpc = "saved"
    /\ Len(problems_by_type) = 2
    /\ Len(problems_by_type[1].plist) = 30 /\ Len(problems_by_type[2].plist) = 10
    /\ op.kind = "answer" /\ op.k = 39 /\ op.page = Len(pages)
    /\ ProblemPages # {}
    /\ SumNa(Len(pages)) = 40

\* C9: every answer entry is placed inside the bounds of its page (the key
\* wraps onto a new answer page when the current one is full).
C9_AnswersInsidePage ==
    op.kind = "answer" =>
        \A t \in 1..Len(op.texts) :
            /\ 0 <= op.texts[t].x /\ op.texts[t].x <= width
            /\ 0 <= op.texts[t].y /\ op.texts[t].y <= height

\* C10 as stated: chunk_size 25 and two non-empty sections give
\* max(chunks_a, chunks_b) problem pages.
C10_PagesMaxOfChunks ==
    (kind = "mixed" /\ chunk_size = 25 /\ Len(problems_by_type) = 2 /\ LayoutDone
        /\ problems_by_type[1].plist # <<>> /\ problems_by_type[2].plist # <<>>) =>
        LET ca == Ceil(Len(problems_by_type[1].plist), 25)
            cb == Ceil(Len(problems_by_type[2].plist), 25)
        IN  Cardinality(ProblemPages) = (IF ca > cb THEN ca ELSE cb)

\* C10 (amended): chunk_size 25 and two non-empty sections with chunks_a and
\* chunks_b chunks give ceil((chunks_a + chunks_b) / 2) problem pages, the
\* first pages of the document, each with a top block and, but for an odd
\* last block, a bottom block.
C10_PagesHalfOfChunks ==
    (kind = "mixed" /\ chunk_size = 25 /\ Len(problems_by_type) = 2 /\ LayoutDone
        /\ problems_by_type[1].plist # <<>> /\ problems_by_type[2].plist # <<>>) =>
        LET ca == Ceil(Len(problems_by_type[1].plist), 25)
            cb == Ceil(Len(problems_by_type[2].plist), 25)
            np == Ceil(ca + cb, 2)
        IN  /\ ProblemPages = 1..np
            /\ \A k \in 1..np :
                  Len(pages[k].headers) = (IF 2 * k <= ca + cb THEN 2 ELSE 1)
            /\ Len(pages) = np + (IF lpc = "answer_key" THEN 0 ELSE 1)

\* sections of 30 and 10 problems: pages (A0, B0) and (A1, nothing)
C10_Witness ==
    /\ kind = "mixed" /\ chunk_size = 25 /\ lpc = "saved"
    /\ Len(problems_by_type) = 2
    /\ Len(problems_by_type[1].plist) = 30 /\ Len(problems_by_type[2].plist) = 10
    /\ ProblemPages = {1, 2}
    /\ pages[1].np = 35 /\ pages[2].np = 5
    /\ Len(pages[1].headers) = 2 /\ Len(pages[2].headers) = 1
    /\ pages[2].headers[1][2] = "top"

\* the non-empty sections, and the number of chunks of the j-th of them
NonEmpty == Groups(problems_by_type)
NumChunks(j) == Ceil(Len(NonEmpty[j].plist), chunk_size)

\* the problems of chunk ci (0-based) of the j-th non-empty section
ChunkOf(j, ci) ==
    LET pl == NonEmpty[j].plist
        last == IF (ci + 1) * chunk_size < Len(pl) THEN (ci + 1) * chunk_size ELSE Len(pl)
    IN  SubSeq(pl, ci * chunk_size + 1, last)

MixedStarted == kind = "mixed" /\ lpc \notin {"create_pdf", "raised"}

\* the lower edge of the top half of the page
HalfLine == height - margin - (usable_h \div 2)

\* C11: in half-page mode the blocks are ordered by chunk index first and
\* section order second, every chunk of every non-empty section is one block,
\* blocks 2k-1 and 2k are the top and the bottom half of page k, and an odd
\* last block is alone in the top half of the last problem page.
C11_HalfPageOrderAndPairing ==
    (MixedStarted /\ HalfPage(chunk_size)) =>
        /\ \A t \in 1..Len(sections) :
              /\ sections[t].sec \in 1..Len(NonEmpty)
              /\ sections[t].chunk \in 0..(NumChunks(sections[t].sec) - 1)
              /\ sections[t].cls = NonEmpty[sections[t].sec].cls
              /\ sections[t].problems = ChunkOf(sections[t].sec, sections[t].chunk)
        /\ \A j \in 1..Len(NonEmpty) : \A ci \in 0..(NumChunks(j) - 1) :
              \E t \in 1..Len(sections) :
                  sections[t].sec = j /\ sections[t].chunk = ci
        /\ \A t \in 1..Len(sections) : \A u \in (t + 1)..Len(sections) :
              \/ sections[t].chunk < sections[u].chunk
              \/ /\ sections[t].chunk = sections[u].chunk
                 /\ sections[t].sec < sections[u].sec
        /\ op.kind \in {"header", "problem"} =>
              /\ op.page = (op.blk \div 2) + 1
              /\ op.page = Len(pages)
        /\ op.kind = "header" =>
              op.y = (IF op.blk % 2 = 0 THEN height - margin ELSE HalfLine) - Pt(2)
        /\ op.kind = "problem" =>
              /\ op.texts = draw_single(sections[op.blk + 1].problems[op.k + 1],
                                        op.x, op.y)
              /\ \A t \in 1..Len(op.texts) :
                    IF op.blk % 2 = 0
                    THEN HalfLine < op.texts[t].y /\ op.texts[t].y < height - margin
                    ELSE margin < op.texts[t].y /\ op.texts[t].y < HalfLine
        /\ LayoutDone =>
              /\ ProblemPages = 1..Ceil(Len(sections), 2)
              /\ \A k \in ProblemPages :
                    LET top == sections[2 * k - 1]
                    IN  IF 2 * k <= Len(sections)
                        THEN /\ pages[k].headers =
                                  <<<<SECTION_LABELS(top.cls), "top">>,
                                    <<SECTION_LABELS(sections[2 * k].cls), "bottom">>>>
                             /\ pages[k].np = Len(top.problems)
                                                + Len(sections[2 * k].problems)
                        ELSE /\ pages[k].headers = <<<<SECTION_LABELS(top.cls), "top">>>>
                             /\ pages[k].np = Len(top.problems)

\* sections of 75 and 30 problems in chunks of 25: A0 B0 / A1 B1 / A2 alone
C11_Witness ==
    /\ kind = "mixed" /\ chunk_size = 25 /\ lpc = "saved"
    /\ Len(problems_by_type) = 2
    /\ Len(problems_by_type[1].plist) = 75 /\ Len(problems_by_type[2].plist) = 30
    /\ [t \in 1..Len(sections) |-> <<sections[t].chunk, sections[t].sec>>]
          = <<<<0, 1>>, <<0, 2>>, <<1, 1>>, <<1, 2>>, <<2, 1>>>>
    /\ Len(pages) = 4
    /\ pages[2].np = 30
    /\ Len(pages[3].headers) = 1 /\ pages[3].headers[1][2] = "top"
    /\ pages[3].np = 25

RECURSIVE ChunksUpTo(_)
ChunksUpTo(j) == IF j = 0 THEN 0 ELSE NumChunks(j) + ChunksUpTo(j - 1)

\* the number of chunks over all sections
TotalChunks == ChunksUpTo(Len(NonEmpty))

\* <<cols, rows>> a type is laid out on when it has a page of its own
NativeCols(c) == IF c \in {MissingFactor, FractionCompare} THEN 5 ELSE 10
NativeRows(c) == IF c \in {MissingFactor, FractionCompare} THEN 10 ELSE 5

\* C12: the mixed layout mode depends on chunk_size alone: with chunk_size <= 25
\* blocks go two to a page on a 5x5 grid each; with chunk_size > 25 every
\* chunk has a problem page of its own, laid out row-major on the native grid
\* of its type below one header, and there are as many problem pages as
\* chunks over all sections.
C12_ModeByChunkSize ==
    MixedStarted =>
        /\ Len(sections) = TotalChunks
        /\ (chunk_size <= 25 /\ op.kind \in {"header", "problem"}) =>
              /\ op.page = (op.blk \div 2) + 1
              /\ op.kind = "problem" =>
                    /\ op.col = op.k % 5 /\ op.row = op.k \div 5 /\ op.row < 5
                    /\ op.x = margin + op.col * (usable_w \div 5)
                                + (5 * (usable_w \div 5)) \div 100
        /\ (chunk_size > 25 /\ op.kind \in {"header", "problem"}) =>
              LET c == sections[op.blk + 1].cls
                  cols == NativeCols(c)
                  rows == NativeRows(c)
                  col_w == usable_w \div cols
                  row_h == (usable_h - header_height) \div rows
              IN  /\ op.page = op.blk + 1
                  /\ op.page = Len(pages)
                  /\ pages[op.page].headers = <<<<SECTION_LABELS(c), "full">>>>
                  /\ op.kind = "header" => op.y = height - margin - Pt(2)
                  /\ op.kind = "problem" =>
                        /\ op.col = op.k % cols /\ op.row = op.k \div cols
                        /\ op.row < rows
                        /\ op.x = margin + op.col * col_w + (5 * col_w) \div 100
                        /\ op.y = height - margin - op.row * row_h
                                    - (15 * row_h) \div 100 - header_height
                        /\ op.texts = draw_single(sections[op.blk + 1].problems[op.k + 1],
                                                  op.x, op.y)
        /\ (chunk_size > 25 /\ LayoutDone) =>
              /\ ProblemPages = 1..TotalChunks
              /\ \A k \in ProblemPages :
                    /\ pages[k].np = Len(sections[k].problems)
                    /\ Len(pages[k].headers) = 1
              /\ \A j \in 1..Len(NonEmpty) : \A ci \in 0..(NumChunks(j) - 1) :
                    LET k == ChunksUpTo(j - 1) + ci + 1
                    IN  /\ sections[k].cls = NonEmpty[j].cls
                        /\ sections[k].problems = ChunkOf(j, ci)
        /\ (chunk_size <= 25 /\ LayoutDone) =>
              ProblemPages = 1..Ceil(TotalChunks, 2)

\* chunks of 26: after 30 Multiplication problems on pages of 26 and 4
\* (10x5), the first MissingFactor chunk has its 26th problem in row 5,
\* column 0 of the 5x10 grid of page 3
C12_Witness ==
    /\ kind = "mixed" /\ chunk_size = 26 /\ lpc = "block"
    /\ Len(problems_by_type) = 2
    /\ problems_by_type[1].cls = Multiplication
    /\ problems_by_type[2].cls = MissingFactor
    /\ Len(problems_by_type[1].plist) = 30 /\ Len(problems_by_type[2].plist) = 75
    /\ Len(pages) = 3
    /\ [k \in 1..3 |-> pages[k].np] = <<26, 4, 26>>
    /\ pages[2].headers = <<<<"Multiplication", "full">>>>
    /\ pages[3].headers = <<<<"Missing Factor", "full">>>>
    /\ op.kind = "problem" /\ op.blk = 2 /\ op.k = 25 /\ op.col = 0 /\ op.row = 5

\* the problem lists as they were handed to the layout
ListsAsGiven ==
    /\ kind = "single" => plist = SampleList(cls, n, 0)
    /\ kind = "mixed" =>
          /\ \A j \in 1..Len(problems_by_type) :
                problems_by_type[j].plist =
                    SampleList(problems_by_type[j].cls,
                               Len(problems_by_type[j].plist), 20 * j)
          /\ all_problems = AllProblems(problems_by_type)

\* the problem that block t shows in its cell i (0-based), as it is in the
\* list of its section
InSection(t, i) ==
    NonEmpty[sections[t].sec].plist[sections[t].chunk * chunk_size + i + 1]

\* C14: laying out a problem list changes no field of any problem, and every
\* problem has the same answer before layout, when it is drawn in its cell,
\* and in the answer-key pass, whatever page and cell it was placed in.
C14_AnswerIndependentOfLayout ==
    /\ [](/\ ListsAsGiven
          /\ \A t \in 1..Len(sections) : \A i \in 1..Len(sections[t].problems) :
                /\ sections[t].problems[i] = InSection(t, i - 1)
                /\ get_answer(sections[t].problems[i]) = get_answer(InSection(t, i - 1))
          /\ (op.kind = "problem" /\ kind = "single") =>
                op.texts = draw_single(SampleProblem(cls, op.k + 1), op.x, op.y)
          /\ (op.kind = "problem" /\ kind = "mixed") =>
                op.texts = draw_single(InSection(op.blk + 1, op.k), op.x, op.y)
          /\ op.kind = "answer" =>
                op.texts[1].text =
                    Str(op.k + 1) \o <<".", " ">> \o get_answer(NthGenerated(op.k + 1)))
    /\ [][/\ plist' = plist
          /\ problems_by_type' = problems_by_type
          /\ all_problems' = all_problems
          /\ sections # <<>> => sections' = sections]_vars

\* in a mixed worksheet with chunks of 10 the 35th answer is drawn: the first
\* problem of the second section, which was placed in the bottom block of
\* page 1, after blocks 0 and 2..3 of the first section
C14_Witness ==
    /\ kind = "mixed" /\ chunk_size = 10 /\ lpc = "answers"
    /\ Len(problems_by_type) = 2
    /\ Len(problems_by_type[1].plist) = 30 /\ Len(problems_by_type[2].plist) = 10
    /\ op.kind = "answer" /\ op.k = 30
    /\ sections[2].sec = 2
    /\ sections[2].problems[1] = problems_by_type[2].plist[1]
    /\ op.texts[1].text =
          <<"3", "1", ".", " ">> \o get_answer(sections[2].problems[1])

\* C15: in a mixed worksheet the m-th problem put on the problem pages (page
\* by page, top block before bottom block, row-major within a block) is the
\* problem whose answer the key lists as its entry m.
C15_KeyInDisplayOrder ==
    (kind = "mixed" /\ op.kind = "problem") =>
        LET m == SumNp(Len(pages))
            shown == sections[op.blk + 1].problems[op.k + 1]
        IN  /\ all_problems[m] = shown
            /\ AnswerText(m - 1, all_problems[m])
                 = Str(m) \o <<".", " ">> \o get_answer(shown)

\* C17: single-type pagination takes the problems in input order, one per
\* step, and puts the problem of 0-based index i on page i div 50, in row
\* (i mod 50) div cols and column i mod cols of the grid of its type (10x5,
\* or 5x10 for MissingFactor and FractionCompare); each problem is placed
\* once and the cells after the last problem stay empty.
C17_SingleRowMajor ==
    /\ []((kind = "single" /\ op.kind = "problem") =>
            LET i == op.k
                cols == NativeCols(cls)
                rows == NativeRows(cls)
                col_w == usable_w \div cols
                row_h == usable_h \div rows
            IN  /\ op.page = (i \div 50) + 1
                /\ op.row = (i % 50) \div cols
                /\ op.col = i % cols
                /\ op.row < rows
                /\ op.x = margin + op.col * col_w + (5 * col_w) \div 100
                /\ op.y = height - margin - op.row * row_h - (15 * row_h) \div 100
                /\ op.texts = draw_single(plist[i + 1], op.x, op.y)
                /\ idx = i + 1
                /\ SumNp(Len(pages)) = i + 1
                /\ pages[op.page].np = (i % 50) + 1)
    /\ []((kind = "single" /\ LayoutDone) => SumNp(Len(pages)) = Len(plist))
    /\ [][(kind = "single" /\ op'.kind = "problem" /\ op' # op) =>
            op'.k = (IF op.kind = "problem" THEN op.k + 1 ELSE 0)]_vars

\* the 120th of 120 Division problems is placed on page 3, row 1, column 9
C17_Witness ==
    /\ kind = "single" /\ cls = Division /\ n = 120
    /\ op.kind = "problem" /\ op.k = 119
    /\ op.page = 3 /\ op.row = 1 /\ op.col = 9
    /\ pages[3].np = 20

\* the chunks of the j-th non-empty section, as create_pdf computes them
ChunksOfSection(j) == Chunked(problems_by_type, chunk_size)[j].chunks

\* the blocks that show chunk ci (0-based) of the j-th non-empty section
BlocksOf(j, ci) ==
    {t \in 1..Len(sections) : sections[t].sec = j /\ sections[t].chunk = ci}

\* C21: mixed composition splits each non-empty section's list into
\* consecutive chunks of chunk_size: every chunk but the last has chunk_size
\* problems, the last has 1..chunk_size, the chunks concatenated give back
\* the list; every chunk is exactly one block, the blocks are drawn one after
\* the other, each problem of a block once, so that over the document every
\* problem of every section is drawn in exactly one block.
C21_ChunksPartitionSections ==
    /\ [](MixedStarted =>
            /\ chunk_size \in 1..MaxChunk
            /\ \A j \in 1..Len(NonEmpty) :
                  LET ch == ChunksOfSection(j)
                  IN  /\ Len(ch) = NumChunks(j) /\ Len(ch) >= 1
                      /\ \A c \in 1..(Len(ch) - 1) : Len(ch[c]) = chunk_size
                      /\ Len(ch[Len(ch)]) \in 1..chunk_size
                      /\ Concat(ch) = NonEmpty[j].plist
                      /\ \A c \in 1..Len(ch) :
                            /\ ch[c] = ChunkOf(j, c - 1)
                            /\ Cardinality(BlocksOf(j, c - 1)) = 1
                            /\ \A t \in BlocksOf(j, c - 1) : sections[t].problems = ch[c]
            /\ \A t \in 1..Len(sections) :
                  /\ sections[t].sec \in 1..Len(NonEmpty)
                  /\ sections[t].chunk \in 0..(NumChunks(sections[t].sec) - 1)
            /\ (op.kind = "problem") =>
                  /\ op.blk < Len(sections)
                  /\ op.k < Len(sections[op.blk + 1].problems)
                  /\ op.texts = draw_single(InSection(op.blk + 1, op.k), op.x, op.y)
            /\ LayoutDone =>
                  /\ blk = Len(sections)
                  /\ SumNp(Len(pages)) = TotalProblems)
    /\ [][(kind = "mixed" /\ op' # op /\ op'.kind = "header") =>
            IF op.kind = "problem"
            THEN /\ op'.blk = op.blk + 1
                 /\ op.k + 1 = Len(sections[op.blk + 1].problems)
            ELSE op.kind = "none" /\ op'.blk = 0]_vars
    /\ [][(kind = "mixed" /\ op' # op /\ op'.kind = "problem") =>
            /\ op'.blk = op.blk
            /\ op'.k = (IF op.kind = "problem" THEN op.k + 1 ELSE 0)]_vars
    /\ [][(kind = "mixed" /\ lpc # "answer_key" /\ lpc' = "answer_key") =>
            \/ sections = <<>>
            \/ /\ op.kind = "problem" /\ op.blk + 1 = Len(sections)
               /\ op.k + 1 = Len(sections[op.blk + 1].problems)]_vars

\* sections of 75 and 30 problems in chunks of 10: the last problem of the
\* short eighth chunk of the first section (5 problems) is drawn, in the last
\* block of all
C21_Witness ==
    /\ kind = "mixed" /\ chunk_size = 10
    /\ Len(problems_by_type) = 2
    /\ Len(problems_by_type[1].plist) = 75 /\ Len(problems_by_type[2].plist) = 30
    /\ Len(sections) = 11
    /\ op.kind = "problem" /\ op.blk = 10 /\ op.k = 4
    /\ sections[11].sec = 1 /\ sections[11].chunk = 7
    /\ Len(sections[11].problems) = 5
    /\ sections[11].problems[5] = problems_by_type[1].plist[75]
    /\ SumNp(Len(pages)) = 105

\* the problem the last drawing step put in a cell
DrawnProblem ==
    IF kind = "single" THEN plist[op.k + 1]
    ELSE sections[op.blk + 1].problems[op.k + 1]

\* the width of the widest of the lines ls at 14 pt
WidestLine(ls) ==
    CHOOSE m \in {stringWidth(ls[t], 14) : t \in 1..Len(ls)} :
        \A t \in 1..Len(ls) : stringWidth(ls[t], 14) <= m

\* C22: within a cell every rendered line of a problem is right-aligned to the
\* widest line of that problem: line L is drawn at line_x with
\* line_x + width(L) = x + max width, line_x >= x, and line i (0-based) is
\* drawn 16 * i below the first, in render order.
C22_RightAligned ==
    (op.kind = "problem") =>
        LET ls == format_problem(DrawnProblem)
        IN  /\ Len(op.texts) = Len(ls)
            /\ \A t \in 1..Len(ls) :
                  /\ op.texts[t].text = ls[t]
                  /\ op.texts[t].x + stringWidth(ls[t], 14) = op.x + WidestLine(ls)
                  /\ op.texts[t].x >= op.x
                  /\ op.texts[t].y = op.y - Pt(16) * (t - 1)
            /\ \E t \in 1..Len(ls) : op.texts[t].x = op.x

\* a three-line problem whose lines have three different widths is drawn:
\* the operator line is the widest and starts at x, the operand above it and
\* the answer blank are moved right by different amounts
C22_Witness ==
    /\ op.kind = "problem"
    /\ Len(op.texts) = 3
    /\ op.texts[2].x = op.x
    /\ op.texts[1].x > op.texts[3].x /\ op.texts[3].x > op.x
    /\ op.texts[2].y = op.y - Pt(16) /\ op.texts[3].y = op.y - Pt(32)

\* C26: for every chunk_size in 1..50 and every block of the mixed layout, the
\* problem at 0-based position i of its block is placed in column i mod cols
\* and row i div cols with row < rows of the block's grid (5 x 5 in half-page
\* mode, 10 x 5 or 5 x 10 by type in full-page mode): no problem lies outside
\* the grid, and no two problems of a block share a cell.
C26_BlockCellsInsideGrid ==
    /\ []((kind = "mixed" /\ op.kind = "problem") =>
            LET c == sections[op.blk + 1].cls
                cols == IF chunk_size <= 25 THEN 5 ELSE NativeCols(c)
                rows == IF chunk_size <= 25 THEN 5 ELSE NativeRows(c)
                col_w == usable_w \div cols
                top == height - margin - header_height
                         - (IF chunk_size <= 25 /\ op.blk % 2 = 1
                            THEN usable_h \div 2 ELSE 0)
                row_h == ((IF chunk_size <= 25 THEN usable_h \div 2 ELSE usable_h)
                            - header_height) \div rows
            IN  /\ chunk_size \in 1..50
                /\ op.k < Len(sections[op.blk + 1].problems)
                /\ Len(sections[op.blk + 1].problems) <= cols * rows
                /\ op.col = op.k % cols /\ op.row = op.k \div cols
                /\ op.col \in 0..(cols - 1) /\ op.row \in 0..(rows - 1)
                /\ op.k = op.row * cols + op.col
                /\ margin + op.col * col_w <= op.x
                /\ op.x < margin + (op.col + 1) * col_w
                /\ top - (op.row + 1) * row_h < op.y
                /\ op.y <= top - op.row * row_h)
    /\ [][(kind = "mixed" /\ op.kind = "problem" /\ op'.kind = "problem" /\ op' # op) =>
            /\ op'.blk = op.blk /\ op'.k = op.k + 1
            /\ <<op'.col, op'.row>> # <<op.col, op.row>>
            /\ <<op'.col, op'.row>> =
                  (IF op.col + 1 < BlockGrid(sections[op.blk + 1].cls, chunk_size)[1]
                   THEN <<op.col + 1, op.row>> ELSE <<0, op.row + 1>>)]_vars

\* chunks of 50: the 50th problem of a MissingFactor block is placed in the
\* last cell of the 5 x 10 grid, column 4 of row 9
C26_Witness ==
    /\ kind = "mixed" /\ chunk_size = 50
    /\ op.kind = "problem" /\ op.k = 49
    /\ sections[op.blk + 1].cls = MissingFactor
    /\ Len(sections[op.blk + 1].problems) = 50
    /\ op.col = 4 /\ op.row = 9

\* the sections handed to the generator that hold problems
Holding == {j \in 1..Len(problems_by_type) : problems_by_type[j].plist # <<>>}

RECURSIVE SumChunks(_)
SumChunks(j) ==
    IF j = 0 THEN 0
    ELSE Ceil(Len(problems_by_type[j].plist), chunk_size) + SumChunks(j - 1)

\* the headers drawn on the pages so far, with a given label
HeadersWith(label) ==
    {<<k, h>> \in (1..Len(pages)) \X {1, 2} :
        h <= Len(pages[k].headers) /\ pages[k].headers[h][1] = label}

\* C27: in half-page mode (chunk_size <= 25) with at least one non-empty
\* section the number of problem pages is ceil(T / 2), T being the sum over
\* the sections of ceil(len(section) / chunk_size); a section whose list is
\* empty contributes no block and no header.
C27_HalfPagePageCount ==
    (kind = "mixed" /\ chunk_size <= 25 /\ Holding # {} /\ LayoutDone) =>
        LET T == SumChunks(Len(problems_by_type))
        IN  /\ Cardinality(ProblemPages) = Ceil(T, 2)
            /\ ProblemPages = 1..Ceil(T, 2)
            /\ Len(sections) = T
            /\ \A t \in 1..Len(sections) : sections[t].problems # <<>>
            /\ \A k \in 1..Len(pages) : Len(pages[k].headers) <= 2
            /\ \A j \in 1..Len(problems_by_type) :
                  /\ Cardinality(HeadersWith(SECTION_LABELS(problems_by_type[j].cls)))
                        = Ceil(Len(problems_by_type[j].plist), chunk_size)
                  /\ j \notin Holding =>
                        /\ \A t \in 1..Len(sections) :
                              sections[t].cls # problems_by_type[j].cls
                        /\ HeadersWith(SECTION_LABELS(problems_by_type[j].cls)) = {}

\* an empty first section and a second one of 30 problems in chunks of 10:
\* three blocks on two problem pages, all under the second section's header
C27_Witness ==
    /\ kind = "mixed" /\ chunk_size = 10 /\ lpc = "saved"
    /\ Len(problems_by_type) = 2
    /\ problems_by_type[1].plist = <<>> /\ Len(problems_by_type[2].plist) = 30
    /\ ProblemPages = {1, 2}
    /\ Len(pages[1].headers) = 2 /\ Len(pages[2].headers) = 1
    /\ HeadersWith(SECTION_LABELS(problems_by_type[1].cls)) = {}
    /\ Cardinality(HeadersWith(SECTION_LABELS(problems_by_type[2].cls))) = 3

(***************************************************************************)
(* Claims about the web API (SpecRequest).                                 *)
(***************************************************************************)
KnownName(name) == \E i \in 1..Len(TypeNames) : TypeNames[i] = Lower(name)

\* the range texts the request body carries
RangeTextsGiven ==
    {f.v : f \in {g \in {payload.term1, payload.term2} : g.given}}
    \cup {payload.defaults[i].term1.v :
              i \in {j \in 1..Len(payload.defaults) : payload.defaults[j].term1.given}}
    \cup {payload.defaults[i].term2.v :
              i \in {j \in 1..Len(payload.defaults) : payload.defaults[j].term2.given}}

\* the request body is one of the invalid specifications: no or an unknown
\* problem type, a count or chunk that is no number or out of range, a range
\* text that is not "min..max" with min <= max, or one of term1 / term2
\* without the other for a single type
InvalidSpecification ==
    \/ ~payload.problem_types.given
    \/ payload.problem_types.v = <<>>
    \/ \E i \in 1..Len(payload.problem_types.v) : ~KnownName(payload.problem_types.v[i])
    \/ payload.n.given /\ (~IsIntLiteral(payload.n.v) \/ ParseInt(payload.n.v) <= 0)
    \/ payload.chunk.given
         /\ (~IsIntLiteral(payload.chunk.v) \/ ParseInt(payload.chunk.v) \notin 1..50)
    \/ \E txt \in RangeTextsGiven : ~ParseRangeOk(txt)
    \/ Len(payload.problem_types.v) = 1 /\ payload.term1.given # payload.term2.given

\* C13: a request with an invalid specification is answered with an error
\* before any problem is generated and before any document is written: no
\* problem list exists and the output directory is as it was.
C13_InvalidRejectedBeforeGeneration ==
    (rpc # "idle" /\ InvalidSpecification) =>
        /\ generated = <<>>
        /\ rpc \notin {"clean", "done", "failed"}
        /\ \A i \in 1..Len(files) : files[i] # out_path
        /\ Len(files) \in {0, limit - 1, limit}
        /\ rpc = "rejected" => response.status = 400

\* the default ranges as the specification lists them
ListedDefaults ==
    <<[name |-> "multiplication", cls |-> Multiplication, t1 |-> <<3, 12>>, t2 |-> <<2, 19>>],
      [name |-> "addition", cls |-> Addition, t1 |-> <<50, 300>>, t2 |-> <<10, 99>>],
      [name |-> "subtraction", cls |-> Subtraction, t1 |-> <<10, 99>>, t2 |-> <<10, 99>>],
      [name |-> "division", cls |-> Division, t1 |-> <<2, 12>>, t2 |-> <<2, 12>>],
      [name |-> "missingfactor", cls |-> MissingFactor, t1 |-> <<2, 12>>, t2 |-> <<2, 20>>],
      [name |-> "fractioncompare", cls |-> FractionCompare, t1 |-> <<2, 12>>,
       t2 |-> <<2, 12>>]>>

\* the request names its ranges itself (single type, term1 / term2)
OwnTerms == Len(classes) = 1 /\ Truthy(payload.term1)

\* C16: PROBLEM_DEFAULTS holds, and GET /defaults answers for each of the six
\* types, exactly the listed ranges, each with min <= max; a generator call
\* for a type without ranges of its own is made with them.
C16_DefaultRanges ==
    /\ \A i \in 1..Len(ListedDefaults) :
          LET d == ListedDefaults[i]
          IN  /\ PROBLEM_DEFAULTS(d.cls) = <<d.t1, d.t2>>
              /\ d.t1[1] <= d.t1[2] /\ d.t2[1] <= d.t2[2]
              /\ PROBLEM_CLASS_MAP(d.name) = d.cls
    /\ {ListedDefaults[i].cls : i \in 1..Len(ListedDefaults)} = Classes
    /\ response.body # <<>> =>
          /\ Len(response.body) = Len(ListedDefaults)
          /\ \A i \in 1..Len(ListedDefaults) :
                \E j \in 1..Len(response.body) :
                    LET d == ListedDefaults[i]
                        e == response.body[j]
                    IN  /\ e.name = d.name
                        /\ ParseRangeOk(e.term1) /\ parse_range(e.term1) = d.t1
                        /\ ParseRangeOk(e.term2) /\ parse_range(e.term2) = d.t2
                        /\ e.term1 = Str(d.t1[1]) \o <<".", ".">> \o Str(d.t1[2])
                        /\ e.term2 = Str(d.t2[1]) \o <<".", ".">> \o Str(d.t2[2])
    /\ \A i \in 1..Len(generated) :
          (~OwnTerms /\ ~HasOverride(per_type_ranges, generated[i].cls)) =>
              \E k \in 1..Len(ListedDefaults) :
                  /\ ListedDefaults[k].cls = generated[i].cls
                  /\ ListedDefaults[k].t1 = generated[i].t1
                  /\ ListedDefaults[k].t2 = generated[i].t2

\* GET /defaults has answered "50..300" and "10..99" for addition and
\* "2..12" and "2..20" for missingfactor
C16_Witness ==
    /\ rpc = "types" /\ response.status = 200
    /\ Len(response.body) = 6
    /\ response.body[2] =
          [name |-> "addition", term1 |-> <<"5", "0", ".", ".", "3", "0", "0">>,
           term2 |-> <<"1", "0", ".", ".", "9", "9">>]
    /\ response.body[5] =
          [name |-> "missingfactor", term1 |-> <<"2", ".", ".", "1", "2">>,
           term2 |-> <<"2", ".", ".", "2", "0">>]

\* the files of OUTPUT_DIR as a set
FileSet(fs) == {fs[i] : i \in 1..Len(fs)}

\* C23: after every successful generate request, in any sequence of requests,
\* OUTPUT_DIR holds at most 50 PDFs; the retention pass deletes exactly the
\* oldest files beyond the 50 most recent, and the file whose URL the request
\* returns is among the files kept.
C23_RetentionCap ==
    /\ [](/\ \A i \in 1..Len(files) : \A j \in 1..Len(files) :
                files[i] = files[j] => i = j
          /\ Len(files) <= 51
          /\ rpc = "done" =>
                /\ response.status = 200
                /\ Len(files) <= 50
                /\ response.url = out_path
                /\ out_path \in FileSet(files)
                /\ files[Len(files)] = out_path)
    /\ [][(rpc = "clean" /\ rpc' = "done") =>
            LET extra == IF Len(files) > 50 THEN Len(files) - 50 ELSE 0
                deleted == FileSet(files) \ FileSet(files')
            IN  /\ deleted = {files[i] : i \in 1..extra}
                /\ files' = SubSeq(files, extra + 1, Len(files))
                /\ \A d \in deleted : \A i \in 1..Len(files') :
                      \E k \in 1..Len(files) : \E m \in (k + 1)..Len(files) :
                          files[k] = d /\ files[m] = files'[i]]_vars
    /\ [][(files' # files /\ ~(rpc = "clean" /\ rpc' = "done")) =>
            /\ rpc = "generate" /\ rpc' = "clean"
            /\ files' = Append(files, out_path)
            /\ out_path \notin FileSet(files)]_vars

\* the second request to a full directory has been answered: files 1 and 2,
\* the oldest, are gone, and the document just written is the newest of 50
C23_Witness ==
    /\ rpc = "done" /\ response.status = 200
    /\ Len(files) = 50
    /\ files[1] = 3 /\ files[50] = 52
    /\ response.url = 52

\* C25: every request that passes all validation checks of
\* generate_worksheet completes generation without failing: constructing
\* each of the n problems of every requested type succeeds and a document is
\* produced.
C25_ValidRequestsComplete ==
    /\ rpc # "failed"
    /\ response.status \in {0, 200, 400}
    /\ rpc \in {"generate", "clean", "done"} =>
          /\ Len(generated) + Len(calls) = Len(classes)
          /\ \A g \in 1..Len(generated) :
                generated[g].cls = classes[g] /\ generated[g].len = req_n
    /\ rpc = "done" =>
          /\ response.status = 200
          /\ Len(generated) = Len(classes)
          /\ \E f \in 1..Len(files) : files[f] = response.url

(***************************************************************************)
(* Claims about requests served at the same time (SpecConcurrent).         *)
(***************************************************************************)
\* the ranges the body p of a request asks for class c: its explicit
\* term1/term2, else its last override for c, else the built-in defaults
OwnRanges(p, c) ==
    LET d == p.defaults
        mine == {e \in 1..Len(d) : PROBLEM_CLASS_MAP(Lower(d[e].name)) = c}
    IN  IF Len(p.problem_types.v) = 1 /\ Truthy(p.term1)
        THEN <<parse_range(p.term1.v), parse_range(p.term2.v)>>
        ELSE IF mine # {}
        THEN LET e == CHOOSE e \in mine : \A f \in mine : f <= e
             IN  <<parse_range(d[e].term1.v), parse_range(d[e].term2.v)>>
        ELSE PROBLEM_DEFAULTS(c)

\* the classes the other request overrides
OverriddenBy(i) ==
    {reqs[i].per_type_ranges[e].cls : e \in 1..Len(reqs[i].per_type_ranges)}

\* C24: requests share no state of the generation: PROBLEM_DEFAULTS is never
\* written, a step of one request changes no local of the other, each
\* generator call fills its own window and list from its own ranges, and the
\* ranges a request uses are its own overrides or the built-in defaults,
\* whatever the other request overrides and however the two interleave.
C24_RequestsIndependent ==
    /\ [](/\ defaults_table = BuiltinTable
          /\ \A i \in DOMAIN reqs :
                LET q == reqs[i]
                IN  /\ \A u \in 1..Len(q.used) :
                          <<q.used[u].t1, q.used[u].t2>>
                              = OwnRanges(q.payload, q.used[u].cls)
                    /\ q.pc = "loop" =>
                          /\ Len(q.plist) = q.slot
                          /\ <<q.t1, q.t2>> = OwnRanges(q.payload, q.cls)
                          /\ \A m \in 1..Len(q.plist) :
                                \E a \in Randint(q.t1), b \in Randint(q.t2) :
                                    \E r \in CtorRands(q.cls, a, b) :
                                        q.plist[m] = NewProblem(q.cls, a, b, r)
                          /\ \A m \in 1..Len(q.recent) :
                                /\ q.recent[m][1] \in Randint(q.t1)
                                /\ q.recent[m][2] \in Randint(q.t2)
                                /\ \E r \in CtorRands(q.cls, q.recent[m][1], q.recent[m][2]) :
                                      \E z \in 1..Len(q.plist) :
                                          q.plist[z] = NewProblem(q.cls, q.recent[m][1],
                                                                  q.recent[m][2], r)
                    /\ \A m \in 1..Len(q.lists) :
                          /\ q.lists[m].cls = q.classes[m]
                          /\ q.lists[m].len = q.n)
    /\ [][defaults_table' = defaults_table]_vars
    /\ [][\A i \in DOMAIN reqs : \A j \in DOMAIN reqs :
            (i # j /\ reqs'[i] # reqs[i]) => reqs'[j] = reqs[j]]_vars

\* request 1 overrides Division with 2..3 and 2..2 and is at its second
\* slot, while request 2, which overrides only Subtraction, has begun its
\* Division call on the built-in ranges 2..12 and drawn a pair outside
\* request 1's override
C24_Witness ==
    /\ DOMAIN reqs = Requests
    /\ reqs[1].pc = "loop" /\ reqs[1].cls = Division
    /\ <<reqs[1].t1, reqs[1].t2>> = <<<<2, 3>>, <<2, 2>>>>
    /\ reqs[1].slot = 1 /\ reqs[1].attempt = 2
    /\ reqs[2].pc = "loop" /\ reqs[2].cls = Division
    /\ Division \notin OverriddenBy(2) /\ Division \in OverriddenBy(1)
    /\ <<reqs[2].t1, reqs[2].t2>> = PROBLEM_DEFAULTS(Division)
    /\ reqs[2].recent = <<<<12, 7>>>>
    /\ Len(reqs[2].lists) = 1

====
